---- MODULE Spec2Model ----
(***************************************************************************)
(* Programs of the repository, each with its own variables, actions and   *)
(* specifications: two prompt hooks, the tool validation script, a lint   *)
(* rule and the issue hierarchy walk of the jira-activity skill.           *)
(*                                                                         *)
(* The skill-activation hook (helpers/hooks/skill_activation_prompt.py):   *)
(* one process invocation that reads standard input, resolves and loads    *)
(* the rule configuration, evaluates the prompt against every rule,        *)
(* formats the matches and exits.  The other programs are described       *)
(* where their parts of the model begin.                                   *)
(*                                                                         *)
(* A Python string is a sequence of one-character strings; a fixed label   *)
(* of the report is one token of such a sequence.  A JSON value is a       *)
(* record [t, v]: t = "str" for a string with text v, t = "num" for a      *)
(* value that is not a string.                                             *)
(***************************************************************************)
EXTENDS Integers, Sequences, FiniteSets, TLC

VARIABLES
    stdin,          \* content of standard input
    env,            \* CLAUDE_PLUGIN_ROOT and CLAUDE_PROJECT_DIR
    fs,             \* rule file content at each candidate path
    pc,             \* position of main()
    prompt,         \* main's local `prompt`
    rules_path,     \* SkillActivationChecker.rules_path
    rules,          \* SkillActivationChecker.rules
    idx,            \* position of the loop over skills.items() in check_prompt
    matched_skills, \* check_prompt's list under construction / returned
    searched,       \* history: <<skill name, pattern index>> handed to re.search
    stdout,         \* lines written to sys.stdout
    stderr,         \* messages written to sys.stderr
    exit_code,      \* process exit status, -1 while running
    \* the question-optimizer hook and its environment
    invocations,    \* standard input of each invocation the session will make
    inv,            \* number of invocations started
    home,           \* history file of each session id under ~/.claude
    home_writable,  \* whether the history files can be written
    q_pc,           \* position of main() of the current invocation
    session_id,     \* main's local `session_id`
    user_prompt,    \* main's local `user_prompt`
    is_question,    \* main's locals, from check_question_conditions
    conditions_met,
    details,
    history,        \* main's local `history`
    match_count,    \* main's locals, from count_matching_words
    is_follow_up,
    q_stderr,       \* what the invocations wrote to sys.stderr
    q_exit_code,    \* exit status of the latest invocation, -1 while running
    \* scripts/validate_tools.py and its environment
    categories_file,  \* the file at categories_yaml_path
    helpers,          \* the helpers directory next to it
    v_pc,             \* position of main()
    categories_data,  \* main's local `categories_data`
    errors,           \* validate_categories_yaml's list `errors`
    filesystem_tools, \* the mapping the scan of the helpers directory returned
    v_stdout,         \* what the script printed
    v_exit_code,      \* exit status, -1 while running
    \* PluginsDocUpToDateRule.check of .claudelint-custom.py and the repository
    repo,                     \* which files of the repository exist
    data_json,                \* content of docs/data.json
    claude_settings,          \* content of images/claude/claude-settings.json
    l_pc,                     \* position of check()
    original_data_json,       \* check's local of that name
    original_claude_settings, \* check's local of that name
    violations,               \* check's list `violations`
    \* collect_hierarchy_data of the jira-activity skill and the Jira server
    jira,      \* the issues of the server and the calls that fail
    visited,   \* the set `visited` shared by the recursive calls
    issues,    \* the entries collected so far, in the order of the result
    stack,     \* the active calls of collect_hierarchy_data, innermost last
    j_pc       \* "running" until the outermost call returned

\* the skill-activation hook
hvars == <<stdin, env, fs, pc, prompt, rules_path, rules, idx, matched_skills,
           searched, stdout, stderr, exit_code>>

\* the question-optimizer hook
qvars == <<invocations, inv, home, home_writable, q_pc, session_id, user_prompt,
           is_question, conditions_met, details, history, match_count,
           is_follow_up, q_stderr, q_exit_code>>

\* scripts/validate_tools.py
vvars == <<categories_file, helpers, v_pc, categories_data, errors,
           filesystem_tools, v_stdout, v_exit_code>>

\* PluginsDocUpToDateRule.check
lvars == <<repo, data_json, claude_settings, l_pc, original_data_json,
           original_claude_settings, violations>>

\* collect_hierarchy_data
jvars == <<jira, visited, issues, stack, j_pc>>

vars == <<hvars, qvars, vvars, lvars, jvars>>

\* what a step of one program leaves alone: the variables of the others
hook_rest == <<qvars, vvars, lvars, jvars>>

q_rest == <<hvars, vvars, lvars, jvars>>

v_rest == <<hvars, qvars, lvars, jvars>>

l_rest == <<hvars, qvars, vvars, jvars>>

j_rest == <<hvars, qvars, vvars, lvars>>

-----------------------------------------------------------------------------
(* Bounds of the model *)

MaxRules == 2

MaxPromptLen == 2

-----------------------------------------------------------------------------
(* Strings *)

Chars == {"a", "A", "b"}

Str(s) == [t |-> "str", v |-> s]

NonString == [t |-> "num", v |-> <<>>]

lower(c) == IF c = "A" THEN "a" ELSE IF c = "B" THEN "b" ELSE c

str_lower(s) == [k \in 1..Len(s) |-> lower(s[k])]

\* Python's `sub in text` for strings
Contains(text, sub) ==
    \E k \in 0..(Len(text) - Len(sub)) : SubSeq(text, k + 1, k + Len(sub)) = sub

StringsUpTo(n) == UNION {[1..k -> Chars] : k \in 0..n}

Prompts == StringsUpTo(MaxPromptLen)

-----------------------------------------------------------------------------
(* Rule configuration: the document json.load returns *)

\* an intent pattern: the regex source as a JSON string.
\*   "lit"     a literal text v
\*   "cs"      (?-i:v), the literal v with IGNORECASE switched off inside the group
\*   "invalid" a source re.compile rejects, such as "("
Pattern(kind, s) == [t |-> kind, v |-> s]

PriorityMissing == "<missing>"

\* a JSON list or object given as priority: not hashable in Python
PriorityUnhashable == "<list>"

known_priorities == {"critical", "high", "medium", "low"}

Priorities == known_priorities \cup {"urgent", PriorityMissing, PriorityUnhashable}

\* the value of one entry of "skills"
Config(kws, pats, prio) ==
    [shape |-> "dict", keywords |-> kws, intentPatterns |-> pats, priority |-> prio]

\* an entry of "skills" whose value is a JSON string instead of an object
NonMapping == [shape |-> "str", keywords |-> <<>>, intentPatterns |-> <<>>,
               priority |-> PriorityMissing]

\* the key of the n-th entry of "skills": keys of a JSON object are distinct
SkillName(n) ==
    IF n = 1 THEN <<"a">>
    ELSE IF n = 2 THEN <<"a", "b">>
    ELSE [k \in 1..n |-> "b"]

\* "skills" as an insertion-ordered mapping with at most MaxRules entries
RuleSetsOf(Bodies) ==
    UNION {{[k \in 1..n |-> [name |-> SkillName(k), config |-> f[k]]] :
               f \in [1..n -> Bodies]} : n \in 0..MaxRules}

FileMissing == [kind |-> "missing", skills |-> <<>>]

FileMalformed == [kind |-> "malformed", skills |-> <<>>]

\* valid JSON whose top level is a list
FileNotObject == [kind |-> "list", skills |-> <<>>]

RulesFile(rs) == [kind |-> "rules", skills |-> rs]

NotLoaded == [kind |-> "unloaded", skills |-> <<>>]

-----------------------------------------------------------------------------
(* Environment and standard input *)

PluginPath == "<plugin>/hooks/skill-rules.json"

ProjectPath == "<project>/.claude/skills/skill-rules.json"

DefaultPath == "<repo>/.claude/skills/skill-rules.json"

Paths == {PluginPath, ProjectPath, DefaultPath}

Envs == [plugin_root : {"", "<plugin>"}, project_dir : {"<unset>", "<project>"}]

Absent == [t |-> "absent", v |-> <<>>]

\* standard input:
\*   "object"  a JSON object with fields prompt and text (Absent when not given)
\*   "scalar"  valid JSON that is not an object: a quoted string, a number, a list
\*   "raw"     text that is not JSON
\*   "blank"   empty or whitespace-only input
StdinObject(p, t) == [kind |-> "object", prompt |-> p, text |-> t, raw |-> <<>>]

StdinScalar == [kind |-> "scalar", prompt |-> Absent, text |-> Absent, raw |-> <<>>]

StdinRaw(s) == [kind |-> "raw", prompt |-> Absent, text |-> Absent, raw |-> s]

StdinBlank == [kind |-> "blank", prompt |-> Absent, text |-> Absent, raw |-> <<>>]

StdinObjects(P) ==
    {StdinObject(Str(p), Absent) : p \in P}
        \cup {StdinObject(Absent, Str(p)) : p \in P}
        \cup {StdinObject(Absent, Absent), StdinObject(NonString, Absent)}

StdinsOf(P) ==
    StdinObjects(P) \cup {StdinRaw(p) : p \in P \ {<<>>}}
        \cup {StdinScalar, StdinBlank}

-----------------------------------------------------------------------------
(* check_prompt *)

\* a message on sys.stderr
Message(kind, subject) == [kind |-> kind, subject |-> subject]

\* any_keyword comparing the keyword as written: kw in prompt_lower
RECURSIVE any_keyword_no_lower(_, _, _)
any_keyword_no_lower(keywords, text_lower, k) ==
    IF k > Len(keywords) THEN "miss"
    ELSE IF keywords[k].t # "str" THEN "AttributeError"
    ELSE IF Contains(text_lower, keywords[k].v) THEN "hit"
    ELSE any_keyword_no_lower(keywords, text_lower, k + 1)

\* any(kw.lower() in prompt_lower for kw in keywords), left to right:
\* "hit" at the first keyword found, "AttributeError" at a keyword that is not
\* a string and is reached before any hit, "miss" otherwise
RECURSIVE any_keyword(_, _, _)
any_keyword(keywords, text_lower, k) ==
    IF k > Len(keywords) THEN "miss"
    ELSE IF keywords[k].t # "str" THEN "AttributeError"
    ELSE IF Contains(text_lower, str_lower(keywords[k].v)) THEN "hit"
    ELSE any_keyword(keywords, text_lower, k + 1)

\* re.search(pattern, text, re.IGNORECASE)
re_search(pattern, text) ==
    CASE pattern.t = "lit" ->
            IF Contains(str_lower(text), str_lower(pattern.v)) THEN "match" ELSE "none"
      [] pattern.t = "cs" ->
            IF Contains(text, pattern.v) THEN "match" ELSE "none"
      [] pattern.t = "invalid" -> "re.error"
      [] OTHER -> "TypeError"

\* what one iteration of the loop over skills.items() did: whether it raised,
\* the match types it appended, the warnings it printed and the indices of the
\* patterns it handed to re.search
Outcome(raised, types, warnings, tried) ==
    [raised |-> raised, types |-> types, warnings |-> warnings, tried |-> tried]

\* scan_patterns without the except clause: re.error leaves check_prompt
RECURSIVE scan_patterns_abort(_, _, _, _)
scan_patterns_abort(patterns, text, k, acc) ==
    IF k > Len(patterns) THEN acc
    ELSE LET r == re_search(patterns[k], text)
             t == acc.tried \cup {k}
         IN  CASE r = "match" ->
                    Outcome(FALSE, Append(acc.types, "intent"), acc.warnings, t)
               [] r = "none" ->
                    scan_patterns_abort(patterns, text, k + 1,
                        Outcome(FALSE, acc.types, acc.warnings, t))
               [] OTHER ->
                    Outcome(TRUE, acc.types, acc.warnings, t)

\* the loop over intent_patterns from index k on
RECURSIVE scan_patterns(_, _, _, _)
scan_patterns(patterns, text, k, acc) ==
    IF k > Len(patterns) THEN acc
    ELSE LET r == re_search(patterns[k], text)
             t == acc.tried \cup {k}
         IN  CASE r = "match" ->
                    \* append and break
                    Outcome(FALSE, Append(acc.types, "intent"), acc.warnings, t)
               [] r = "none" ->
                    scan_patterns(patterns, text, k + 1,
                        Outcome(FALSE, acc.types, acc.warnings, t))
               [] r = "re.error" ->
                    \* except re.error: warn, go on with the next pattern
                    scan_patterns(patterns, text, k + 1,
                        Outcome(FALSE, acc.types,
                            Append(acc.warnings,
                                   Message("invalid_regex", patterns[k].v)), t))
               [] OTHER ->
                    \* TypeError is not caught in check_prompt
                    Outcome(TRUE, acc.types, acc.warnings, t)

\* eval_rule without `continue` after a keyword match
eval_rule_no_continue(config, text) ==
    IF config.shape # "dict"
    THEN Outcome(TRUE, <<>>, <<>>, {})
    ELSE LET kw == IF config.keywords = <<>> THEN "miss"
                   ELSE any_keyword(config.keywords, str_lower(text), 1)
         IN  CASE kw = "hit" ->
                    scan_patterns(config.intentPatterns, text, 1,
                                  Outcome(FALSE, <<"keyword">>, <<>>, {}))
               [] kw = "AttributeError" ->
                    Outcome(TRUE, <<>>, <<>>, {})
               [] OTHER ->
                    scan_patterns(config.intentPatterns, text, 1,
                                  Outcome(FALSE, <<>>, <<>>, {}))

\* eval_rule searching the patterns in prompt_lower instead of prompt
eval_rule_lowered(config, text) ==
    IF config.shape # "dict"
    THEN Outcome(TRUE, <<>>, <<>>, {})
    ELSE LET kw == IF config.keywords = <<>> THEN "miss"
                   ELSE any_keyword(config.keywords, str_lower(text), 1)
         IN  CASE kw = "hit" ->
                    Outcome(FALSE, <<"keyword">>, <<>>, {})
               [] kw = "AttributeError" ->
                    Outcome(TRUE, <<>>, <<>>, {})
               [] OTHER ->
                    scan_patterns(config.intentPatterns, str_lower(text), 1,
                                  Outcome(FALSE, <<>>, <<>>, {}))

\* one iteration of `for skill_name, config in skills.items()`
eval_rule(config, text) ==
    IF config.shape # "dict"
    THEN \* config.get: AttributeError
         Outcome(TRUE, <<>>, <<>>, {})
    ELSE LET kw == IF config.keywords = <<>> THEN "miss"
                   ELSE any_keyword(config.keywords, str_lower(text), 1)
         IN  CASE kw = "hit" ->
                    \* append and continue
                    Outcome(FALSE, <<"keyword">>, <<>>, {})
               [] kw = "AttributeError" ->
                    Outcome(TRUE, <<>>, <<>>, {})
               [] OTHER ->
                    scan_patterns(config.intentPatterns, text, 1,
                                  Outcome(FALSE, <<>>, <<>>, {}))

Match(name, type, config) == [name |-> name, match_type |-> type, config |-> config]

-----------------------------------------------------------------------------
(* format_output *)

\* the report's symbols outside ASCII are written in ASCII: "=" for the heavy
\* horizontal bar, "->" for the arrow, and the labels without their emoji
BannerWidth == 42

Banner == [k \in 1..BannerWidth |-> "="]

Title == <<"SKILL ACTIVATION CHECK">>

ActionLine == <<"ACTION: Use Skill tool BEFORE responding">>

SectionLabel(priority) ==
    CASE priority = "critical" -> <<"CRITICAL SKILLS (REQUIRED):">>
      [] priority = "high" -> <<"RECOMMENDED SKILLS:">>
      [] priority = "medium" -> <<"SUGGESTED SKILLS:">>
      [] OTHER -> <<"OPTIONAL SKILLS:">>

EntryLine(name) == <<" ", " ", "->", " ">> \o name

\* Bucket with the low bucket as the default of every unknown priority
Bucket_unknown_as_low(matched, priority) ==
    LET Has(s) == \/ s.config.priority = priority
                  \/ priority = "low" /\ s.config.priority \notin known_priorities
    IN  SelectSeq(matched, Has)

\* [s for s in matched_skills if s["config"].get("priority") == priority]
Bucket(matched, priority) ==
    LET Has(s) == s.config.priority = priority IN SelectSeq(matched, Has)

\* the lines one bucket adds to `output`
Section(matched, priority) ==
    LET bucket == Bucket(matched, priority)
    IN  IF bucket = <<>> THEN <<>>
        ELSE <<SectionLabel(priority)>>
                 \o [k \in 1..Len(bucket) |-> EntryLine(bucket[k].name)]
                 \o << <<>> >>

\* the warning loop: `priority not in known_priorities` raises TypeError on an
\* unhashable priority; the warnings printed before it stay printed
RECURSIVE warn_priorities(_, _, _)
warn_priorities(matched, k, warnings) ==
    IF k > Len(matched) THEN [raised |-> FALSE, warnings |-> warnings]
    ELSE LET priority == matched[k].config.priority
         IN  IF priority = PriorityUnhashable
             THEN [raised |-> TRUE, warnings |-> warnings]
             ELSE IF priority \notin known_priorities
             THEN warn_priorities(matched, k + 1,
                      Append(warnings, Message("invalid_priority", matched[k].name)))
             ELSE warn_priorities(matched, k + 1, warnings)

\* "\n".join(lines)
RECURSIVE join_lines(_)
join_lines(lines) ==
    IF lines = <<>> THEN <<>>
    ELSE IF Len(lines) = 1 THEN lines[1]
    ELSE lines[1] \o <<"\n">> \o join_lines(Tail(lines))

\* format_output writing the sections from low up to critical
format_output_low_first(matched) ==
    IF matched = <<>>
    THEN [raised |-> FALSE, warnings |-> <<>>, text |-> <<>>]
    ELSE LET w == warn_priorities(matched, 1, <<>>)
             lines == <<Banner, Title, Banner, <<>> >>
                          \o Section(matched, "low")
                          \o Section(matched, "medium")
                          \o Section(matched, "high")
                          \o Section(matched, "critical")
                          \o <<ActionLine, Banner>>
         IN  [raised |-> w.raised, warnings |-> w.warnings,
              text |-> IF w.raised THEN <<>> ELSE join_lines(lines)]

format_output(matched) ==
    IF matched = <<>>
    THEN [raised |-> FALSE, warnings |-> <<>>, text |-> <<>>]
    ELSE LET w == warn_priorities(matched, 1, <<>>)
             lines == <<Banner, Title, Banner, <<>> >>
                          \o Section(matched, "critical")
                          \o Section(matched, "high")
                          \o Section(matched, "medium")
                          \o Section(matched, "low")
                          \o <<ActionLine, Banner>>
         IN  [raised |-> w.raised, warnings |-> w.warnings,
              text |-> IF w.raised THEN <<>> ELSE join_lines(lines)]

\* the line print(json.dumps(output)) writes
Payload(text) == [hookEventName |-> "UserPromptSubmit", additionalContext |-> text]

-----------------------------------------------------------------------------
(* main() *)

\* the truth value Python's `or` sees: a missing field reads as "", an empty
\* string is false, a non-empty string and a non-string such as 5 are true
Truthy(value) == value.t # "absent" /\ ~(value.t = "str" /\ value.v = <<>>)

\* data.get("prompt", "") or data.get("text", "") or ""
prompt_of(data) ==
    IF Truthy(data.prompt) THEN data.prompt
    ELSE IF Truthy(data.text) THEN data.text
    ELSE Str(<<>>)

Exit(code) == pc' = "exited" /\ exit_code' = code

\* main, the inner try: read and interpret standard input
ReadStdin ==
    /\ pc = "read"
    /\ CASE stdin.kind = "blank" ->
                prompt' = Str(<<>>) /\ pc' = "resolve"
         [] stdin.kind = "object" ->
                prompt' = prompt_of(stdin) /\ pc' = "resolve"
         [] stdin.kind = "raw" ->
                \* json.JSONDecodeError: the raw text is the prompt
                prompt' = Str(stdin.raw) /\ pc' = "resolve"
         [] OTHER ->
                \* data.get on a str, int or list: AttributeError
                prompt' = prompt /\ pc' = "except"
    /\ UNCHANGED <<stdin, env, fs, rules_path, rules, idx, matched_skills,
                   searched, stdout, stderr, exit_code>>
    /\ UNCHANGED hook_rest

\* resolve_rules_path looking at CLAUDE_PROJECT_DIR first
resolve_rules_path_project_first(e) ==
    IF e.project_dir # "<unset>" THEN ProjectPath
    ELSE IF e.plugin_root # "" THEN PluginPath
    ELSE DefaultPath

resolve_rules_path(e) ==
    IF e.plugin_root # "" THEN PluginPath
    ELSE IF e.project_dir # "<unset>" THEN ProjectPath
    ELSE DefaultPath

ResolveRulesPath ==
    /\ pc = "resolve"
    /\ rules_path' = resolve_rules_path(env)
    /\ pc' = "construct"
    /\ UNCHANGED <<stdin, env, fs, prompt, rules, idx, matched_skills,
                   searched, stdout, stderr, exit_code>>
    /\ UNCHANGED hook_rest

\* LoadRules taking a file that does not parse for an empty configuration
LoadRules_lenient ==
    /\ pc = "construct"
    /\ LET file == fs[rules_path]
       IN  CASE file.kind = "missing" ->
                    /\ stderr' = Append(stderr, Message("rules_not_found", <<>>))
                    /\ Exit(1)
                    /\ rules' = rules
             [] file.kind = "malformed" ->
                    /\ stderr' = Append(stderr, Message("rules_parse_error", <<>>))
                    /\ rules' = RulesFile(<<>>)
                    /\ pc' = "check"
                    /\ exit_code' = exit_code
             [] OTHER ->
                    /\ rules' = file
                    /\ pc' = "check"
                    /\ UNCHANGED <<stderr, exit_code>>
    /\ UNCHANGED <<stdin, env, fs, prompt, rules_path, idx, matched_skills,
                   searched, stdout>>
    /\ UNCHANGED hook_rest

\* SkillActivationChecker(rules_path): __init__ and _load_rules
LoadRules ==
    /\ pc = "construct"
    /\ LET file == fs[rules_path]
       IN  CASE file.kind = "missing" ->
                    /\ stderr' = Append(stderr, Message("rules_not_found", <<>>))
                    /\ Exit(1)
                    /\ rules' = rules
             [] file.kind = "malformed" ->
                    /\ stderr' = Append(stderr, Message("rules_parse_error", <<>>))
                    /\ Exit(1)
                    /\ rules' = rules
             [] OTHER ->
                    /\ rules' = file
                    /\ pc' = "check"
                    /\ UNCHANGED <<stderr, exit_code>>
    /\ UNCHANGED <<stdin, env, fs, prompt, rules_path, idx, matched_skills,
                   searched, stdout>>
    /\ UNCHANGED hook_rest

\* check_prompt up to the loop: prompt.lower() and self.rules.get("skills", {})
CheckPromptBegin ==
    /\ pc = "check"
    /\ IF prompt.t = "str" /\ rules.kind = "rules"
       THEN pc' = "loop" /\ idx' = 1 /\ matched_skills' = <<>>
       ELSE pc' = "except" /\ UNCHANGED <<idx, matched_skills>>
    /\ UNCHANGED <<stdin, env, fs, prompt, rules_path, rules, searched, stdout,
                   stderr, exit_code>>
    /\ UNCHANGED hook_rest

\* CheckRule putting a new entry in front of the entries found so far
CheckRule_prepend ==
    /\ pc = "loop"
    /\ idx <= Len(rules.skills)
    /\ LET skill == rules.skills[idx]
           r == eval_rule(skill.config, prompt.v)
       IN  /\ stderr' = stderr \o r.warnings
           /\ searched' = searched \cup {<<skill.name, k>> : k \in r.tried}
           /\ IF r.raised
              THEN pc' = "except" /\ UNCHANGED <<idx, matched_skills>>
              ELSE /\ pc' = "loop"
                   /\ idx' = idx + 1
                   /\ matched_skills' =
                          [k \in 1..Len(r.types) |->
                              Match(skill.name, r.types[k], skill.config)]
                          \o matched_skills
    /\ UNCHANGED <<stdin, env, fs, prompt, rules_path, rules, stdout, exit_code>>
    /\ UNCHANGED hook_rest

\* check_prompt, one iteration of the loop over skills.items()
CheckRule ==
    /\ pc = "loop"
    /\ idx <= Len(rules.skills)
    /\ LET skill == rules.skills[idx]
           r == eval_rule(skill.config, prompt.v)
       IN  /\ stderr' = stderr \o r.warnings
           /\ searched' = searched \cup {<<skill.name, k>> : k \in r.tried}
           /\ IF r.raised
              THEN pc' = "except" /\ UNCHANGED <<idx, matched_skills>>
              ELSE /\ pc' = "loop"
                   /\ idx' = idx + 1
                   /\ matched_skills' = matched_skills \o
                          [k \in 1..Len(r.types) |->
                              Match(skill.name, r.types[k], skill.config)]
    /\ UNCHANGED <<stdin, env, fs, prompt, rules_path, rules, stdout, exit_code>>
    /\ UNCHANGED hook_rest

\* CheckPromptReturn emptying the rule set on return
CheckPromptReturn_clearing ==
    /\ pc = "loop"
    /\ idx > Len(rules.skills)
    /\ pc' = "output"
    /\ rules' = RulesFile(<<>>)
    /\ UNCHANGED <<stdin, env, fs, prompt, rules_path, idx, matched_skills,
                   searched, stdout, stderr, exit_code>>
    /\ UNCHANGED hook_rest

\* check_prompt: return matched_skills
CheckPromptReturn ==
    /\ pc = "loop"
    /\ idx > Len(rules.skills)
    /\ pc' = "output"
    /\ UNCHANGED <<stdin, env, fs, prompt, rules_path, rules, idx, matched_skills,
                   searched, stdout, stderr, exit_code>>
    /\ UNCHANGED hook_rest

\* output_json without the early sys.exit(0) on an empty list
output_json_no_early_exit ==
    /\ pc = "output"
    /\ LET f == format_output(matched_skills)
       IN  /\ stderr' = stderr \o f.warnings
           /\ exit_code' = exit_code
           /\ IF f.raised
              THEN pc' = "except" /\ stdout' = stdout
              ELSE pc' = "exit" /\ stdout' = Append(stdout, Payload(f.text))
    /\ UNCHANGED <<stdin, env, fs, prompt, rules_path, rules, idx, matched_skills,
                   searched>>
    /\ UNCHANGED hook_rest

\* output_json printing the report as plain text before the envelope
output_json_plain_too ==
    /\ pc = "output"
    /\ IF matched_skills = <<>>
       THEN Exit(0) /\ UNCHANGED <<stdout, stderr>>
       ELSE LET f == format_output(matched_skills)
            IN  /\ stderr' = stderr \o f.warnings
                /\ exit_code' = exit_code
                /\ IF f.raised
                   THEN pc' = "except" /\ stdout' = stdout
                   ELSE pc' = "exit" /\ stdout' = stdout \o <<f.text, Payload(f.text)>>
    /\ UNCHANGED <<stdin, env, fs, prompt, rules_path, rules, idx, matched_skills,
                   searched>>
    /\ UNCHANGED hook_rest

\* checker.output_json(matched_skills), format_output included
output_json ==
    /\ pc = "output"
    /\ IF matched_skills = <<>>
       THEN Exit(0) /\ UNCHANGED <<stdout, stderr>>
       ELSE LET f == format_output(matched_skills)
            IN  /\ stderr' = stderr \o f.warnings
                /\ exit_code' = exit_code
                /\ IF f.raised
                   THEN pc' = "except" /\ stdout' = stdout
                   ELSE pc' = "exit" /\ stdout' = Append(stdout, Payload(f.text))
    /\ UNCHANGED <<stdin, env, fs, prompt, rules_path, rules, idx, matched_skills,
                   searched>>
    /\ UNCHANGED hook_rest

\* main: sys.exit(0) after output_json returned
MainExit ==
    /\ pc = "exit"
    /\ Exit(0)
    /\ UNCHANGED <<stdin, env, fs, prompt, rules_path, rules, idx, matched_skills,
                   searched, stdout, stderr>>
    /\ UNCHANGED hook_rest

\* main: except Exception
HandleException ==
    /\ pc = "except"
    /\ stderr' = Append(stderr, Message("hook_error", <<>>))
    /\ Exit(1)
    /\ UNCHANGED <<stdin, env, fs, prompt, rules_path, rules, idx, matched_skills,
                   searched, stdout>>
    /\ UNCHANGED hook_rest

Next ==
    \/ ReadStdin
    \/ ResolveRulesPath
    \/ LoadRules
    \/ CheckPromptBegin
    \/ CheckRule
    \/ CheckPromptReturn
    \/ output_json
    \/ MainExit
    \/ HandleException

-----------------------------------------------------------------------------
(***************************************************************************)
(* The question-optimizer hook                                             *)
(* (helpers/question-optimizer/hooks/question_optimizer_hook.py): a        *)
(* session invokes the hook once per prompt, one invocation after the      *)
(* other; an invocation classifies the prompt, records it in the history   *)
(* file of the session and prints a suggestion for a question.             *)
(***************************************************************************)

\* QUESTION_STARTERS
QUESTION_STARTERS ==
    {<<"w", "h", "o">>, <<"w", "h", "o", "m">>, <<"w", "h", "a", "t">>,
     <<"w", "h", "i", "c", "h">>, <<"w", "h", "e", "n">>,
     <<"w", "h", "e", "r", "e">>, <<"w", "h", "y">>,
     <<"w", "h", "o", "s", "e">>, <<"h", "o", "w">>, <<"a", "r", "e">>,
     <<"i", "s">>, <<"d", "o">>, <<"d", "i", "d">>, <<"w", "a", "s">>,
     <<"w", "e", "r", "e">>, <<"h", "a", "v", "e">>, <<"h", "a", "s">>,
     <<"h", "a", "d">>, <<"c", "a", "n">>, <<"c", "o", "u", "l", "d">>,
     <<"w", "i", "l", "l">>, <<"w", "o", "u", "l", "d">>,
     <<"s", "h", "a", "l", "l">>, <<"s", "h", "o", "u", "l", "d">>,
     <<"m", "a", "y">>, <<"m", "i", "g", "h", "t">>}

\* ARTICLES_AND_STOPWORDS
ARTICLES_AND_STOPWORDS ==
    {<<"a">>, <<"a", "n">>, <<"t", "h", "e">>, <<"i", "s">>,
     <<"a", "r", "e">>, <<"w", "a", "s">>, <<"w", "e", "r", "e">>,
     <<"b", "e">>, <<"b", "e", "e", "n">>, <<"b", "e", "i", "n", "g">>,
     <<"h", "a", "v", "e">>, <<"h", "a", "s">>, <<"h", "a", "d">>,
     <<"d", "o">>, <<"d", "o", "e", "s">>, <<"d", "i", "d">>,
     <<"w", "i", "l", "l">>, <<"w", "o", "u", "l", "d">>,
     <<"c", "o", "u", "l", "d">>, <<"s", "h", "o", "u", "l", "d">>,
     <<"m", "a", "y">>, <<"m", "i", "g", "h", "t">>, <<"c", "a", "n">>,
     <<"o", "f">>, <<"t", "o">>, <<"i", "n">>, <<"o", "n">>, <<"a", "t">>,
     <<"f", "o", "r">>, <<"w", "i", "t", "h">>, <<"f", "r", "o", "m">>,
     <<"b", "y">>, <<"a", "b", "o", "u", "t">>, <<"a", "s">>,
     <<"i", "n", "t", "o">>, <<"t", "h", "r", "o", "u", "g", "h">>,
     <<"d", "u", "r", "i", "n", "g">>, <<"b", "e", "f", "o", "r", "e">>,
     <<"a", "f", "t", "e", "r">>, <<"a", "b", "o", "v", "e">>,
     <<"b", "e", "l", "o", "w">>, <<"b", "e", "t", "w", "e", "e", "n">>,
     <<"u", "n", "d", "e", "r">>, <<"i">>, <<"y", "o", "u">>, <<"w", "e">>,
     <<"t", "h", "e", "y">>, <<"h", "e">>, <<"s", "h", "e">>, <<"i", "t">>,
     <<"t", "h", "i", "s">>, <<"t", "h", "a", "t">>,
     <<"t", "h", "e", "s", "e">>, <<"t", "h", "o", "s", "e">>}

\* COMMON_VERBS
COMMON_VERBS ==
    {<<"i", "s">>, <<"a", "r", "e">>, <<"w", "a", "s">>,
     <<"w", "e", "r", "e">>, <<"b", "e">>, <<"b", "e", "e", "n">>,
     <<"b", "e", "i", "n", "g">>, <<"h", "a", "v", "e">>, <<"h", "a", "s">>,
     <<"h", "a", "d">>, <<"d", "o">>, <<"d", "o", "e", "s">>,
     <<"d", "i", "d">>, <<"c", "a", "n">>, <<"c", "o", "u", "l", "d">>,
     <<"w", "i", "l", "l">>, <<"w", "o", "u", "l", "d">>,
     <<"s", "h", "a", "l", "l">>, <<"s", "h", "o", "u", "l", "d">>,
     <<"m", "a", "y">>, <<"m", "i", "g", "h", "t">>, <<"g", "o">>,
     <<"g", "e", "t">>, <<"m", "a", "k", "e">>, <<"t", "a", "k", "e">>,
     <<"s", "e", "e">>, <<"k", "n", "o", "w">>, <<"t", "h", "i", "n", "k">>,
     <<"c", "o", "m", "e">>, <<"w", "a", "n", "t">>, <<"u", "s", "e">>,
     <<"f", "i", "n", "d">>, <<"g", "i", "v", "e">>, <<"t", "e", "l", "l">>,
     <<"w", "o", "r", "k">>, <<"c", "a", "l", "l">>, <<"t", "r", "y">>,
     <<"a", "s", "k">>, <<"n", "e", "e", "d">>, <<"f", "e", "e", "l">>,
     <<"b", "e", "c", "o", "m", "e">>, <<"l", "e", "a", "v", "e">>,
     <<"p", "u", "t">>, <<"m", "e", "a", "n">>, <<"k", "e", "e", "p">>,
     <<"l", "e", "t">>, <<"b", "e", "g", "i", "n">>, <<"s", "e", "e", "m">>,
     <<"h", "e", "l", "p">>, <<"t", "a", "l", "k">>, <<"t", "u", "r", "n">>,
     <<"s", "t", "a", "r", "t">>, <<"s", "h", "o", "w">>,
     <<"h", "e", "a", "r">>, <<"p", "l", "a", "y">>, <<"r", "u", "n">>,
     <<"m", "o", "v", "e">>, <<"l", "i", "k", "e">>, <<"l", "i", "v", "e">>,
     <<"b", "e", "l", "i", "e", "v", "e">>, <<"h", "o", "l", "d">>,
     <<"b", "r", "i", "n", "g">>, <<"h", "a", "p", "p", "e", "n">>,
     <<"w", "r", "i", "t", "e">>, <<"p", "r", "o", "v", "i", "d", "e">>,
     <<"s", "i", "t">>, <<"s", "t", "a", "n", "d">>, <<"l", "o", "s", "e">>,
     <<"p", "a", "y">>, <<"m", "e", "e", "t">>,
     <<"i", "n", "c", "l", "u", "d", "e">>, <<"c", "r", "e", "a", "t", "e">>,
     <<"b", "u", "i", "l", "d">>, <<"e", "d", "i", "t">>,
     <<"c", "h", "a", "n", "g", "e">>, <<"u", "p", "d", "a", "t", "e">>,
     <<"d", "e", "l", "e", "t", "e">>, <<"a", "d", "d">>,
     <<"r", "e", "m", "o", "v", "e">>}

\* check_question_conditions: subject_indicators
subject_indicators ==
    {<<"i">>, <<"y", "o", "u">>, <<"w", "e">>, <<"t", "h", "e", "y">>,
     <<"h", "e">>, <<"s", "h", "e">>, <<"i", "t">>, <<"t", "h", "i", "s">>,
     <<"t", "h", "a", "t">>, <<"f", "i", "l", "e">>, <<"c", "o", "d", "e">>,
     <<"p", "r", "o", "j", "e", "c", "t">>,
     <<"a", "p", "p", "l", "i", "c", "a", "t", "i", "o", "n">>,
     <<"s", "y", "s", "t", "e", "m">>, <<"p", "l", "u", "g", "i", "n">>,
     <<"f", "u", "n", "c", "t", "i", "o", "n">>,
     <<"m", "e", "t", "h", "o", "d">>, <<"c", "l", "a", "s", "s">>,
     <<"v", "a", "r", "i", "a", "b", "l", "e">>, <<"d", "a", "t", "a">>,
     <<"u", "s", "e", "r">>, <<"s", "e", "r", "v", "e", "r">>,
     <<"d", "a", "t", "a", "b", "a", "s", "e">>, <<"a", "p", "i">>,
     <<"i", "n", "t", "e", "r", "f", "a", "c", "e">>,
     <<"c", "o", "m", "p", "o", "n", "e", "n", "t">>}

\* len(history) > 5, history[-5:]
HistoryLimit == 5

\* conditions_met >= 3
QuestionThreshold == 3

\* match_count >= 3
FollowUpThreshold == 3

\* the characters of the texts: lowercase letters, the capitals, a digit,
\* white space and punctuation
LowerLetters ==
    {"a", "b", "c", "d", "e", "f", "g", "h", "i", "j", "k", "l", "m", "n", "o",
     "p", "q", "r", "s", "t", "u", "v", "w", "x", "y", "z"}

UpperLetters == {"A", "B"}

Whitespace == {" ", "\n"}

\* the characters the regex class \w takes
WordChars == LowerLetters \cup UpperLetters \cup {"1", "_"}

\* str.isupper() of one character
isupper(c) == c \in UpperLetters

\* the maximal runs of characters of `keep` in the text, from left to right
RECURSIVE runs(_, _)
runs(text, keep) ==
    IF text = <<>> THEN <<>>
    ELSE IF text[1] \notin keep THEN runs(Tail(text), keep)
    ELSE LET n == CHOOSE k \in 1..Len(text) :
                      /\ \A h \in 1..k : text[h] \in keep
                      /\ k < Len(text) => text[k + 1] \notin keep
         IN  <<SubSeq(text, 1, n)>> \o runs(SubSeq(text, n + 1, Len(text)), keep)

\* str.strip(chars): the text without leading and trailing characters of `chars`
strip(text, chars) ==
    LET kept == {i \in DOMAIN text : text[i] \notin chars}
    IN  IF kept = {} THEN <<>>
        ELSE SubSeq(text,
                    CHOOSE i \in kept : \A j \in kept : i <= j,
                    CHOOSE i \in kept : \A j \in kept : j <= i)

\* str.split(): the runs of characters that are not white space
split(text) ==
    LET keep == {text[i] : i \in DOMAIN text} \ Whitespace IN runs(text, keep)

\* word.strip('?,.:;!')
clean(word) == strip(word, {"?", ",", ".", ":", ";", "!"})

\* re.findall(r'\b[a-z]+\b', text): a run of \w characters is found when all
\* its characters are in a-z; a run holding a digit, an underscore or a
\* capital has no word boundary inside and gives nothing
findall_words(text) ==
    LET AllLower(w) == \A i \in DOMAIN w : w[i] \in LowerLetters
    IN  SelectSeq(runs(text, WordChars), AllLower)

tokenize_and_normalize(text) ==
    LET Keep(w) == w \notin ARTICLES_AND_STOPWORDS /\ Len(w) > 2
    IN  SelectSeq(findall_words(str_lower(text)), Keep)

\* set(list)
ToSet(list) == {list[i] : i \in DOMAIN list}

NoDetails == <<>>

Details(c1, c2, c3, c4) ==
    [starts_with_question_word |-> c1, has_subject |-> c2, has_verb |-> c3,
     ends_with_question_mark |-> c4]

\* True counts 1 in conditions_met += 1
Bit(b) == IF b THEN 1 ELSE 0

\* check_question_conditions with conditions_met >= 2
check_question_conditions_two(text) ==
    LET text_lower == strip(str_lower(text), Whitespace)
        words == split(text_lower)
    IN  IF words = <<>>
        THEN [is_question |-> FALSE, conditions_met |-> 0, details |-> NoDetails]
        ELSE LET c1 == clean(words[1]) \in QUESTION_STARTERS
                 c2 == \E k \in DOMAIN words :
                           \/ clean(words[k]) \in subject_indicators
                           \/ /\ Len(clean(words[k])) > 2
                              /\ isupper(clean(words[k])[1])
                 c3 == \E k \in DOMAIN words : clean(words[k]) \in COMMON_VERBS
                 stripped == strip(text, Whitespace)
                 c4 == stripped # <<>> /\ stripped[Len(stripped)] = "?"
                 n == Bit(c1) + Bit(c2) + Bit(c3) + Bit(c4)
             IN  [is_question |-> n >= 2, conditions_met |-> n,
                  details |-> Details(c1, c2, c3, c4)]

\* returns (is_question, conditions_met, details)
check_question_conditions(text) ==
    LET text_lower == strip(str_lower(text), Whitespace)
        words == split(text_lower)
    IN  IF words = <<>>
        THEN [is_question |-> FALSE, conditions_met |-> 0, details |-> NoDetails]
        ELSE LET c1 == clean(words[1]) \in QUESTION_STARTERS
                 c2 == \E k \in DOMAIN words :
                           \/ clean(words[k]) \in subject_indicators
                           \/ /\ Len(clean(words[k])) > 2
                              /\ isupper(clean(words[k])[1])
                 c3 == \E k \in DOMAIN words : clean(words[k]) \in COMMON_VERBS
                 stripped == strip(text, Whitespace)
                 c4 == stripped # <<>> /\ stripped[Len(stripped)] = "?"
                 n == Bit(c1) + Bit(c2) + Bit(c3) + Bit(c4)
             IN  [is_question |-> n >= QuestionThreshold, conditions_met |-> n,
                  details |-> Details(c1, c2, c3, c4)]

\* " ".join(history)
RECURSIVE join_spaces(_)
join_spaces(list) ==
    IF list = <<>> THEN <<>>
    ELSE IF Len(list) = 1 THEN list[1]
    ELSE list[1] \o <<" ">> \o join_spaces(Tail(list))

\* count_matching_words counting every word found, stop words and short words
\* included
count_matching_words_all_words(current_text, past) ==
    LET current_words == ToSet(findall_words(str_lower(current_text)))
        history_words == ToSet(findall_words(str_lower(join_spaces(past))))
        n == Cardinality(current_words \cap history_words)
    IN  IF current_words = {}
        THEN [match_count |-> 0, is_follow_up |-> FALSE]
        ELSE [match_count |-> n, is_follow_up |-> n >= FollowUpThreshold]

\* returns (match_count, is_follow_up)
count_matching_words(current_text, past) ==
    LET current_words == ToSet(tokenize_and_normalize(current_text))
        history_words == ToSet(tokenize_and_normalize(join_spaces(past)))
        n == Cardinality(current_words \cap history_words)
    IN  IF current_words = {}
        THEN [match_count |-> 0, is_follow_up |-> FALSE]
        ELSE [match_count |-> n, is_follow_up |-> n >= FollowUpThreshold]

(* main() of the question-optimizer hook *)

Sessions == {"default", "s1"}

\* standard input of one invocation
QStdinObject(sid, text) == [kind |-> "object", session_id |-> sid, user_prompt |-> text]

\* text json.loads rejects, the empty input included
QStdinUnparsable == [kind |-> "raw", session_id |-> Absent, user_prompt |-> Absent]

\* JSON that is not an object
QStdinScalar == [kind |-> "scalar", session_id |-> Absent, user_prompt |-> Absent]

\* content of a history file
HistoryAbsent == [kind |-> "absent", items |-> <<>>]

HistoryList(items) == [kind |-> "list", items |-> items]

\* a file json.load rejects
HistoryMalformed == [kind |-> "malformed", items |-> <<>>]

\* a JSON document that is not a list
HistoryNotList == [kind |-> "other", items |-> <<>>]

\* load_conversation_history: [] for a missing file and for one that does not
\* parse, what json.load returns otherwise
load_conversation_history(sid) ==
    IF home[sid].kind \in {"absent", "malformed"} THEN HistoryList(<<>>)
    ELSE home[sid]

\* history[-5:] if len(history) > 5 else history
recent_history(list) ==
    IF Len(list) > HistoryLimit
    THEN SubSeq(list, Len(list) - HistoryLimit + 1, Len(list))
    ELSE list

\* save_conversation_history dropping the newest entries beyond the limit
save_conversation_history_keep_oldest(sid, list) ==
    IF home_writable
    THEN home' = [home EXCEPT ![sid] =
                      HistoryList(IF Len(list) > HistoryLimit
                                  THEN SubSeq(list, 1, HistoryLimit) ELSE list)]
    ELSE home' = home

\* save_conversation_history: an IOError of the write is passed over
save_conversation_history(sid, list) ==
    IF home_writable
    THEN home' = [home EXCEPT ![sid] = HistoryList(recent_history(list))]
    ELSE home' = home

\* what an invocation prints to sys.stderr: a suggestion, or the traceback of
\* an exception nothing catches
Suggestion(kind, text, count, met, flags) ==
    [kind |-> kind, question |-> text, match_count |-> count,
     conditions_met |-> met, details |-> flags]

Traceback(error) ==
    [kind |-> error, question |-> <<>>, match_count |-> 0, conditions_met |-> 0,
     details |-> NoDetails]

QExit(code) == q_pc' = "exited" /\ q_exit_code' = code

\* an exception leaves main: the interpreter prints the traceback and ends
\* with status 1
QCrash(error) == q_stderr' = Append(q_stderr, Traceback(error)) /\ QExit(1)

\* the session starts the next invocation of the hook
QStart ==
    /\ q_pc \in {"idle", "exited"}
    /\ inv < Len(invocations)
    /\ inv' = inv + 1
    /\ q_pc' = "read"
    /\ session_id' = "default"
    /\ user_prompt' = Str(<<>>)
    /\ is_question' = FALSE
    /\ conditions_met' = 0
    /\ details' = NoDetails
    /\ history' = <<>>
    /\ match_count' = 0
    /\ is_follow_up' = FALSE
    /\ q_stderr' = <<>>
    /\ q_exit_code' = -1
    /\ UNCHANGED <<invocations, home, home_writable>>
    /\ UNCHANGED q_rest

\* main: read and parse standard input, extract session_id and user_prompt
QReadInput ==
    /\ q_pc = "read"
    /\ LET input_data == invocations[inv]
           sid == IF input_data.session_id = Absent THEN "default"
                  ELSE input_data.session_id.v
           text == IF input_data.user_prompt = Absent THEN Str(<<>>)
                   ELSE input_data.user_prompt
       IN  CASE input_data.kind = "raw" ->
                    \* json.JSONDecodeError
                    /\ QExit(0)
                    /\ UNCHANGED <<session_id, user_prompt, q_stderr>>
             [] input_data.kind = "scalar" ->
                    \* input_data.get: AttributeError
                    /\ QCrash("AttributeError")
                    /\ UNCHANGED <<session_id, user_prompt>>
             [] OTHER ->
                    /\ session_id' = sid
                    /\ user_prompt' = text
                    /\ IF Truthy(text)
                       THEN q_pc' = "classify" /\ UNCHANGED <<q_stderr, q_exit_code>>
                       ELSE QExit(0) /\ UNCHANGED q_stderr
    /\ UNCHANGED <<invocations, inv, home, home_writable, is_question,
                   conditions_met, details, history, match_count, is_follow_up>>
    /\ UNCHANGED q_rest

\* main, step 1: check_question_conditions(user_prompt)
QCheckQuestion ==
    /\ q_pc = "classify"
    /\ IF user_prompt.t # "str"
       THEN \* text.lower(): AttributeError
            /\ QCrash("AttributeError")
            /\ UNCHANGED <<is_question, conditions_met, details>>
       ELSE LET r == check_question_conditions(user_prompt.v)
            IN  /\ is_question' = r.is_question
                /\ conditions_met' = r.conditions_met
                /\ details' = r.details
                /\ q_pc' = IF r.is_question THEN "question" ELSE "plain"
                /\ UNCHANGED <<q_stderr, q_exit_code>>
    /\ UNCHANGED <<invocations, inv, home, home_writable, session_id, user_prompt,
                   history, match_count, is_follow_up>>
    /\ UNCHANGED q_rest

\* main, not a question: load the history, append the prompt, save, exit
QRecordPlain ==
    /\ q_pc = "plain"
    /\ LET loaded == load_conversation_history(session_id)
       IN  IF loaded.kind # "list"
           THEN \* history.append: AttributeError
                /\ QCrash("AttributeError")
                /\ UNCHANGED <<history, home>>
           ELSE /\ history' = Append(loaded.items, user_prompt.v)
                /\ save_conversation_history(session_id, history')
                /\ QExit(0)
                /\ UNCHANGED q_stderr
    /\ UNCHANGED <<invocations, inv, home_writable, session_id, user_prompt,
                   is_question, conditions_met, details, match_count, is_follow_up>>
    /\ UNCHANGED q_rest

\* main, step 2: load the history, count the matching words, append the
\* prompt, save
QRecordQuestion ==
    /\ q_pc = "question"
    /\ LET loaded == load_conversation_history(session_id)
       IN  IF loaded.kind # "list"
           THEN /\ QCrash("AttributeError")
                /\ UNCHANGED <<history, home, match_count, is_follow_up>>
           ELSE LET r == count_matching_words(user_prompt.v, loaded.items)
                IN  /\ match_count' = r.match_count
                    /\ is_follow_up' = r.is_follow_up
                    /\ history' = Append(loaded.items, user_prompt.v)
                    /\ save_conversation_history(session_id, history')
                    /\ q_pc' = "suggest"
                    /\ UNCHANGED <<q_stderr, q_exit_code>>
    /\ UNCHANGED <<invocations, inv, home_writable, session_id, user_prompt,
                   is_question, conditions_met, details>>
    /\ UNCHANGED q_rest

\* main, step 3: print the suggestion and let the prompt proceed
QSuggest ==
    /\ q_pc = "suggest"
    /\ q_stderr' = Append(q_stderr,
           Suggestion(IF is_follow_up THEN "follow_up" ELSE "new",
                      user_prompt.v, match_count, conditions_met, details))
    /\ QExit(0)
    /\ UNCHANGED <<invocations, inv, home, home_writable, session_id, user_prompt,
                   is_question, conditions_met, details, history, match_count,
                   is_follow_up>>
    /\ UNCHANGED q_rest

QNext ==
    \/ QStart
    \/ QReadInput
    \/ QCheckQuestion
    \/ QRecordPlain
    \/ QRecordQuestion
    \/ QSuggest

\* no invocation of the question-optimizer hook
QIdle ==
    /\ invocations = <<>>
    /\ inv = 0
    /\ home = [s \in Sessions |-> HistoryAbsent]
    /\ home_writable = TRUE
    /\ q_pc = "idle"
    /\ session_id = "default"
    /\ user_prompt = Str(<<>>)
    /\ is_question = FALSE
    /\ conditions_met = 0
    /\ details = NoDetails
    /\ history = <<>>
    /\ match_count = 0
    /\ is_follow_up = FALSE
    /\ q_stderr = <<>>
    /\ q_exit_code = -1

-----------------------------------------------------------------------------
(***************************************************************************)
(* scripts/validate_tools.py: one run of main().  It loads the categories  *)
(* file, validates its structure, scans the helpers directory next to it   *)
(* for skills, commands, agents and gems, compares the two, prints what    *)
(* it found and exits.  A name is a string as above; a directory is the    *)
(* set of the names in it, listed in the order the system gives them.      *)
(***************************************************************************)

VALID_TOOL_TYPES == {"skill", "command", "agent", "gem"}

\* the characters the class [a-zA-Z0-9] takes
SlugChars == LowerLetters \cup UpperLetters \cup {"1"}

\* text without its leading characters outside SlugChars
RECURSIVE after_run(_)
after_run(text) ==
    IF text = <<>> \/ text[1] \in SlugChars
    THEN text
    ELSE after_run(Tail(text))

\* re.sub(r"[^a-zA-Z0-9]+", "-", text)
RECURSIVE hyphenate(_)
hyphenate(text) ==
    IF text = <<>>
    THEN <<>>
    ELSE IF text[1] \in SlugChars
         THEN <<text[1]>> \o hyphenate(Tail(text))
         ELSE <<"-">> \o hyphenate(after_run(text))

title_to_slug(title) == strip(hyphenate(str_lower(title)), {"-"})

\* the states of helpers/gems/gems.yaml
GemsAbsent == [kind |-> "absent", titles |-> <<>>]

GemsUnparsable == [kind |-> "unparsable", titles |-> <<>>]

GemsNoList == [kind |-> "no_gems_key", titles |-> <<>>]

GemsNotIterable == [kind |-> "gems_not_iterable", titles |-> <<>>]

\* an entry of the list `gems` that has no "title"
NoTitle == [t |-> "untitled", v |-> <<>>]

GemsList(titles) == [kind |-> "list", titles |-> titles]

\* one (tool_type, location) pair of tool_locations
Location(type, at) == [type |-> type, at |-> at]

gem_locations(gems, name) ==
    LET hits == SelectSeq(gems.titles,
                    LAMBDA g : g.t = "str" /\ title_to_slug(g.v) = name)
    IN  [k \in 1..Len(hits) |-> Location("gem", hits[k].v)]

\* tool_locations[name] once the four scans are over
tool_locations(h, name) ==
    (IF name \in h.skills THEN <<Location("skill", name)>> ELSE <<>>)
    \o (IF name \in h.commands THEN <<Location("command", name)>> ELSE <<>>)
    \o (IF name \in h.agents THEN <<Location("agent", name)>> ELSE <<>>)
    \o (IF name \in h.agent_dirs
        THEN <<Location("agent (incorrect format)", name)>> ELSE <<>>)
    \o gem_locations(h.gems, name)

gem_names(gems) ==
    {title_to_slug(gems.titles[k].v) :
        k \in {i \in DOMAIN gems.titles : gems.titles[i].t = "str"}}

\* the keys of tool_locations
found_names(h) ==
    h.skills \cup h.commands \cup h.agents \cup h.agent_dirs
        \cup gem_names(h.gems)

\* filesystem_tools[name]: a later scan keeps the type an earlier one set
last_type(h, name) ==
    IF name \in gem_names(h.gems) THEN "gem"
    ELSE IF name \in h.agents \cup h.agent_dirs THEN "agent"
    ELSE IF name \in h.commands THEN "command"
    ELSE "skill"

first_type(h, name) ==
    IF name \in h.skills THEN "skill"
    ELSE IF name \in h.commands THEN "command"
    ELSE IF name \in h.agents \cup h.agent_dirs THEN "agent"
    ELSE "gem"

\* the members of a set in the order a directory listing or a dict gives
\* them
Enumerate(S) ==
    CHOOSE s \in [1..Cardinality(S) -> S] : \A x \in S : \E k \in DOMAIN s : s[k] = x

\* one entry of a list of error messages
Error(kind, subject, where) == [kind |-> kind, subject |-> subject, where |-> where]

incorrect_format_errors(h) ==
    LET dirs == Enumerate(h.agent_dirs)
    IN  [k \in DOMAIN dirs |-> Error("incorrect_agent_format", dirs[k], <<>>)]

duplicate_errors(h) ==
    LET names == Enumerate({n \in found_names(h) : Len(tool_locations(h, n)) > 1})
    IN  [k \in DOMAIN names |->
            Error("duplicate_across_types", names[k], tool_locations(h, names[k]))]

\* get_filesystem_tools_with_duplicates_check(helpers_dir), for a gems file
\* the scan gets through
get_filesystem_tools_with_duplicates_check(h) ==
    [filesystem_tools |-> [n \in found_names(h) |-> first_type(h, n)],
     duplicate_errors |-> incorrect_format_errors(h) \o duplicate_errors(h)]

\* the states of the categories file
CategoriesMissing == [kind |-> "missing", value |-> <<>>]

CategoriesInvalid == [kind |-> "invalid_yaml", value |-> <<>>]

CategoriesUnreadable == [kind |-> "unreadable", value |-> <<>>]

CategoriesValue(value) == [kind |-> "value", value |-> value]

\* YAML values: a mapping of category names to tools, a list of tools, a
\* value of another type
NotDict == [t |-> "other", items |-> <<>>]

Dict(items) == [t |-> "dict", items |-> items]

Category(name, tools) == [name |-> name, tools |-> tools]

NotList == [t |-> "other", items |-> <<>>]

List(items) == [t |-> "list", items |-> items]

\* flat concatenation of a sequence of sequences
RECURSIVE Flatten(_)
Flatten(seqs) ==
    IF seqs = <<>> THEN <<>> ELSE Head(seqs) \o Flatten(Tail(seqs))

validate_tool_structure(tool_name, index, category_name) ==
    IF tool_name.t # "str"
    THEN <<Error("not_a_string", index, category_name)>>
    ELSE IF strip(tool_name.v, Whitespace) = <<>>
         THEN <<Error("empty_name", index, category_name)>>
         ELSE <<>>

validate_category_tools(category_name, tools) ==
    IF tools.t # "list"
    THEN <<Error("not_a_list", category_name, category_name)>>
    ELSE Flatten([k \in DOMAIN tools.items |->
                    validate_tool_structure(tools.items[k], k - 1, category_name)])

\* the string names of a category listed before position k
names_before(tools, k) ==
    {tools.items[j].v : j \in {i \in 1..(k - 1) : tools.items[i].t = "str"}}

validate_tool_names_unique(data) ==
    Flatten([c \in DOMAIN data.items |->
        LET tools == data.items[c].tools
        IN  IF tools.t # "list"
            THEN <<>>
            ELSE Flatten([k \in DOMAIN tools.items |->
                    IF /\ tools.items[k].t = "str"
                       /\ tools.items[k].v \in names_before(tools, k)
                    THEN <<Error("duplicate_in_category", tools.items[k].v,
                                 data.items[c].name)>>
                    ELSE <<>>])])

validate_categorized_tools_exist(data, tools_found) ==
    Flatten([c \in DOMAIN data.items |->
        LET tools == data.items[c].tools
        IN  IF tools.t # "list"
            THEN <<>>
            ELSE Flatten([k \in DOMAIN tools.items |->
                    IF /\ tools.items[k].t = "str"
                       /\ tools.items[k].v \notin DOMAIN tools_found
                    THEN <<Error("does_not_exist", tools.items[k].v,
                                 data.items[c].name)>>
                    ELSE <<>>])])

\* yaml_tool_names of validate_filesystem_tools_consistency
yaml_tool_names(data) ==
    UNION {IF data.items[c].tools.t # "list"
           THEN {}
           ELSE {data.items[c].tools.items[k].v :
                    k \in {i \in DOMAIN data.items[c].tools.items :
                              data.items[c].tools.items[i].t = "str"}} :
           c \in DOMAIN data.items}

\* the lines the script prints
NotFoundLine == [line |-> "not_found", tools |-> {}]

InvalidYamlLine == [line |-> "invalid_yaml", tools |-> {}]

VTraceback == [line |-> "traceback", tools |-> {}]

GeneralInfo(names) == [line |-> "info_general", tools |-> names]

ErrorsFound == [line |-> "errors_found", tools |-> {}]

AllPassed == [line |-> "all_passed", tools |-> {}]

VExit(code) ==
    /\ v_pc' = "exited"
    /\ v_exit_code' = code

\* an exception no handler catches: traceback, status 1
VCrash ==
    /\ v_stdout' = Append(v_stdout, VTraceback)
    /\ VExit(1)

\* load_categories_yaml(categories_yaml_path)
VLoad_lenient ==
    /\ v_pc = "start"
    /\ IF categories_file.kind = "value"
       THEN /\ categories_data' = categories_file.value
            /\ v_pc' = "structure"
            /\ UNCHANGED <<v_stdout, v_exit_code>>
       ELSE /\ v_stdout' = Append(v_stdout, NotFoundLine)
            /\ VExit(0)
            /\ UNCHANGED categories_data
    /\ UNCHANGED <<categories_file, helpers, errors, filesystem_tools>>
    /\ UNCHANGED v_rest

VLoad ==
    /\ v_pc = "start"
    /\ CASE categories_file.kind = "missing" ->
                /\ v_stdout' = Append(v_stdout, NotFoundLine)
                /\ VExit(1)
                /\ UNCHANGED categories_data
         [] categories_file.kind = "invalid_yaml" ->
                /\ v_stdout' = Append(v_stdout, InvalidYamlLine)
                /\ VExit(1)
                /\ UNCHANGED categories_data
         [] categories_file.kind = "unreadable" ->
                /\ VCrash
                /\ UNCHANGED categories_data
         [] OTHER ->
                /\ categories_data' = categories_file.value
                /\ v_pc' = "structure"
                /\ UNCHANGED <<v_stdout, v_exit_code>>
    /\ UNCHANGED <<categories_file, helpers, errors, filesystem_tools>>
    /\ UNCHANGED v_rest

\* validate_categories_yaml: the dictionary check and validate_category_tools
\* of every category
VCheckStructure ==
    /\ v_pc = "structure"
    /\ IF categories_data.t # "dict"
       THEN /\ errors' = <<Error("not_a_dictionary", <<>>, <<>>)>>
            /\ v_pc' = "report"
       ELSE /\ errors' = errors \o
                Flatten([c \in DOMAIN categories_data.items |->
                    validate_category_tools(categories_data.items[c].name,
                                            categories_data.items[c].tools)])
            /\ v_pc' = "unique"
    /\ UNCHANGED <<categories_file, helpers, categories_data,
                   filesystem_tools, v_stdout, v_exit_code>>
    /\ UNCHANGED v_rest

\* validate_categories_yaml: validate_tool_names_unique
VCheckUnique ==
    /\ v_pc = "unique"
    /\ errors' = errors \o validate_tool_names_unique(categories_data)
    /\ v_pc' = IF helpers.exists THEN "types" ELSE "report"
    /\ UNCHANGED <<categories_file, helpers, categories_data,
                   filesystem_tools, v_stdout, v_exit_code>>
    /\ UNCHANGED v_rest

\* validate_categories_yaml: validate_tool_names_unique_across_types
VCheckTypes ==
    /\ v_pc = "types"
    /\ IF helpers.gems.kind = "gems_not_iterable"
       THEN /\ VCrash
            /\ UNCHANGED <<errors, filesystem_tools>>
       ELSE LET scan == get_filesystem_tools_with_duplicates_check(helpers)
            IN  /\ errors' = errors \o scan.duplicate_errors
                /\ filesystem_tools' = scan.filesystem_tools
                /\ v_pc' = "exist"
                /\ UNCHANGED <<v_stdout, v_exit_code>>
    /\ UNCHANGED <<categories_file, helpers, categories_data>>
    /\ UNCHANGED v_rest

\* validate_categories_yaml: validate_categorized_tools_exist
VCheckExist ==
    /\ v_pc = "exist"
    /\ errors' = errors \o
            validate_categorized_tools_exist(categories_data,
                get_filesystem_tools_with_duplicates_check(helpers).filesystem_tools)
    /\ v_pc' = "consistency"
    /\ UNCHANGED <<categories_file, helpers, categories_data,
                   filesystem_tools, v_stdout, v_exit_code>>
    /\ UNCHANGED v_rest

\* validate_categories_yaml: validate_filesystem_tools_consistency
VCheckConsistency_strict ==
    /\ v_pc = "consistency"
    /\ LET uncategorized == DOMAIN filesystem_tools \ yaml_tool_names(categories_data)
       IN  /\ v_stdout' = IF uncategorized = {}
                          THEN v_stdout
                          ELSE Append(v_stdout, GeneralInfo(uncategorized))
           /\ errors' = IF uncategorized = {}
                        THEN errors
                        ELSE Append(errors, Error("uncategorized", <<>>, <<>>))
    /\ v_pc' = "report"
    /\ UNCHANGED <<categories_file, helpers, categories_data,
                   filesystem_tools, v_exit_code>>
    /\ UNCHANGED v_rest

VCheckConsistency ==
    /\ v_pc = "consistency"
    /\ LET uncategorized == DOMAIN filesystem_tools \ yaml_tool_names(categories_data)
       IN  v_stdout' = IF uncategorized = {}
                       THEN v_stdout
                       ELSE Append(v_stdout, GeneralInfo(uncategorized))
    /\ v_pc' = "report"
    /\ UNCHANGED <<categories_file, helpers, categories_data, errors,
                   filesystem_tools, v_exit_code>>
    /\ UNCHANGED v_rest

\* main: the report and the exit status
VReport ==
    /\ v_pc = "report"
    /\ IF errors # <<>>
       THEN /\ v_stdout' = Append(v_stdout, ErrorsFound)
            /\ VExit(1)
       ELSE /\ v_stdout' = Append(v_stdout, AllPassed)
            /\ VExit(0)
    /\ UNCHANGED <<categories_file, helpers, categories_data, errors,
                   filesystem_tools>>
    /\ UNCHANGED v_rest

VNext ==
    \/ VLoad
    \/ VCheckStructure
    \/ VCheckUnique
    \/ VCheckTypes
    \/ VCheckExist
    \/ VCheckConsistency
    \/ VReport

NoHelpers ==
    [exists |-> FALSE, skills |-> {}, commands |-> {}, agents |-> {},
     agent_dirs |-> {}, gems |-> GemsAbsent]

\* no run of validate_tools.py
VIdle ==
    /\ categories_file = CategoriesMissing
    /\ helpers = NoHelpers
    /\ v_pc = "idle"
    /\ categories_data = NotDict
    /\ errors = <<>>
    /\ filesystem_tools = <<>>
    /\ v_stdout = <<>>
    /\ v_exit_code = -1

-----------------------------------------------------------------------------
(***************************************************************************)
(* .claudelint-custom.py, PluginsDocUpToDateRule.check: one call.  The     *)
(* rule remembers the content of docs/data.json and of                     *)
(* images/claude/claude-settings.json, runs the two generator scripts in   *)
(* the repository (scripts/build-website.py writes the first file,         *)
(* scripts/update_claude_settings.py the second), and compares.  A script  *)
(* is another process: how far it gets before it fails or is killed at     *)
(* the timeout is not the rule's to choose.                                *)
(***************************************************************************)

\* contents of a generated file: what the generator writes from the present
\* metadata, an older content, a file cut short in the middle of a write
UpToDate == "up_to_date"

Stale == "stale"

Partial == "partial"

\* the file does not exist; also Python's None for its content
None == "none"

\* a local that has not been assigned
Unread == "unread"

FileContents == {UpToDate, Stale, Partial}

\* how a subprocess.run ends: returncode 0, another returncode,
\* subprocess.TimeoutExpired
Outcomes == {"ok", "failed", "timeout"}

\* what a generator that ended with outcome leaves in its file holding
\* content: a run that ends well has written the file
written_by(outcome, content) ==
    IF outcome = "ok" THEN {UpToDate} ELSE {content, Partial, UpToDate}

LReturn(violation) ==
    /\ violations' = Append(violations, violation)
    /\ l_pc' = "returned"

\* the guards: a marketplace repository with a categories.yaml
LGuards ==
    /\ l_pc = "start"
    /\ l_pc' = IF repo.marketplace /\ repo.categories_yaml THEN "read" ELSE "returned"
    /\ UNCHANGED <<repo, data_json, claude_settings, original_data_json,
                   original_claude_settings, violations>>
    /\ UNCHANGED l_rest

\* read the current content of the files to check
LReadOriginals ==
    /\ l_pc = "read"
    /\ original_data_json' = data_json
    /\ original_claude_settings' = claude_settings
    /\ l_pc' = "website"
    /\ UNCHANGED <<repo, data_json, claude_settings, violations>>
    /\ UNCHANGED l_rest

\* run build-website.py if it exists
LRunWebsite ==
    /\ l_pc = "website"
    /\ IF ~repo.website_script
       THEN /\ l_pc' = "settings"
            /\ UNCHANGED <<data_json, violations>>
       ELSE \E outcome \in Outcomes :
                /\ data_json' \in written_by(outcome, data_json)
                /\ CASE outcome = "failed" -> LReturn("build_website_failed")
                     [] outcome = "timeout" -> LReturn("timed_out")
                     [] OTHER -> /\ l_pc' = "settings"
                                 /\ UNCHANGED violations
    /\ UNCHANGED <<repo, claude_settings, original_data_json,
                   original_claude_settings>>
    /\ UNCHANGED l_rest

\* run update_claude_settings.py if it exists
LRunSettings ==
    /\ l_pc = "settings"
    /\ IF ~repo.settings_script
       THEN /\ l_pc' = "compare_data"
            /\ UNCHANGED <<claude_settings, violations>>
       ELSE \E outcome \in Outcomes :
                /\ claude_settings' \in written_by(outcome, claude_settings)
                /\ CASE outcome = "failed" -> LReturn("update_claude_settings_failed")
                     [] outcome = "timeout" -> LReturn("timed_out")
                     [] OTHER -> /\ l_pc' = "compare_data"
                                 /\ UNCHANGED violations
    /\ UNCHANGED <<repo, data_json, original_data_json,
                   original_claude_settings>>
    /\ UNCHANGED l_rest

\* check if docs/data.json changed; restore the original content
LCompareData ==
    /\ l_pc = "compare_data"
    /\ IF data_json # None /\ original_data_json # data_json
       THEN /\ data_json' = IF original_data_json # None
                            THEN original_data_json
                            ELSE data_json
            /\ violations' = Append(violations, "data_json_out_of_sync")
       ELSE UNCHANGED <<data_json, violations>>
    /\ l_pc' = "compare_settings"
    /\ UNCHANGED <<repo, claude_settings, original_data_json,
                   original_claude_settings>>
    /\ UNCHANGED l_rest

\* check if claude-settings.json changed; restore the original content
LCompareSettings ==
    /\ l_pc = "compare_settings"
    /\ IF claude_settings # None /\ original_claude_settings # claude_settings
       THEN /\ claude_settings' = IF original_claude_settings # None
                                  THEN original_claude_settings
                                  ELSE claude_settings
            /\ violations' = Append(violations, "claude_settings_out_of_sync")
       ELSE UNCHANGED <<claude_settings, violations>>
    /\ l_pc' = "returned"
    /\ UNCHANGED <<repo, data_json, original_data_json,
                   original_claude_settings>>
    /\ UNCHANGED l_rest

LNext ==
    \/ LGuards
    \/ LReadOriginals
    \/ LRunWebsite
    \/ LRunSettings
    \/ LCompareData
    \/ LCompareSettings

\* no call of the rule
LIdle ==
    /\ repo = [marketplace |-> FALSE, categories_yaml |-> FALSE,
               website_script |-> FALSE, settings_script |-> FALSE]
    /\ data_json = None
    /\ claude_settings = None
    /\ l_pc = "idle"
    /\ original_data_json = Unread
    /\ original_claude_settings = Unread
    /\ violations = <<>>

-----------------------------------------------------------------------------
(***************************************************************************)
(* helpers/skills/jira-activity/scripts/fetch_jira_activity.py,            *)
(* collect_hierarchy_data: one outermost call and the recursive calls it   *)
(* makes, as a stack of frames.  The Jira server is a finite set of        *)
(* issues with their subtasks and the issues whose "Epic Link" names       *)
(* them; a request for an issue or a search can fail.                      *)
(***************************************************************************)

Keys == {"A", "B", "C"}

\* the argument parent_key of the outermost call
NoParent == "none"

\* the permutations of a set, as sequences
Orders(S) ==
    {s \in [1..Cardinality(S) -> S] : \A x \in S : \E k \in DOMAIN s : s[k] = x}

\* find_child_keys(jira, issue, key) when no request fails: subtasks and
\* reverse links, duplicates removed, in the order list(set(...)) gives
find_child_keys(key) == Orders(jira.subtasks[key] \cup jira.epic_links[key])

Frame(key, level, parent_key) ==
    [key |-> key, level |-> level, parent_key |-> parent_key,
     at |-> "enter", child_keys |-> <<>>]

DataEntry(frame) ==
    [key |-> frame.key, level |-> frame.level,
     parent_key |-> frame.parent_key, error |-> FALSE]

ErrorEntry(frame) ==
    [key |-> frame.key, level |-> frame.level,
     parent_key |-> frame.parent_key, error |-> TRUE]

top == stack[Len(stack)]

\* the innermost call returns to its caller
JReturn ==
    /\ stack' = SubSeq(stack, 1, Len(stack) - 1)
    /\ j_pc' = IF Len(stack) = 1 THEN "returned" ELSE j_pc

\* the innermost call moves on
JGoto(frame) ==
    /\ stack' = [stack EXCEPT ![Len(stack)] = frame]
    /\ UNCHANGED j_pc

\* if key in visited: return []; visited.add(key)
JEnter ==
    /\ stack # <<>>
    /\ top.at = "enter"
    /\ IF top.key \in visited
       THEN /\ JReturn
            /\ UNCHANGED visited
       ELSE /\ visited' = visited \cup {top.key}
            /\ JGoto([top EXCEPT !.at = "collect"])
    /\ UNCHANGED <<jira, issues>>
    /\ UNCHANGED j_rest

\* collect_issue_data and the data entry; the error entry if it raises
JCollectIssue ==
    /\ stack # <<>>
    /\ top.at = "collect"
    /\ IF top.key \in jira.failing_issues
       THEN /\ issues' = Append(issues, ErrorEntry(top))
            /\ JReturn
       ELSE /\ issues' = Append(issues, DataEntry(top))
            /\ JGoto([top EXCEPT !.at = "children"])
    /\ UNCHANGED <<jira, visited>>
    /\ UNCHANGED j_rest

\* find_child_keys; the error entry if it raises
JFindChildKeys ==
    /\ stack # <<>>
    /\ top.at = "children"
    /\ IF top.key \in jira.failing_searches
       THEN /\ issues' = Append(issues, ErrorEntry(top))
            /\ JReturn
       ELSE /\ \E child_keys \in find_child_keys(top.key) :
                    JGoto([top EXCEPT !.at = "loop", !.child_keys = child_keys])
            /\ UNCHANGED issues
    /\ UNCHANGED <<jira, visited>>
    /\ UNCHANGED j_rest

\* for child_key in child_keys: the recursive call; return issues
JNextChild ==
    /\ stack # <<>>
    /\ top.at = "loop"
    /\ IF top.child_keys = <<>>
       THEN JReturn
       ELSE /\ stack' =
                Append([stack EXCEPT ![Len(stack)].child_keys = Tail(top.child_keys)],
                       Frame(Head(top.child_keys), top.level + 1, top.key))
            /\ UNCHANGED j_pc
    /\ UNCHANGED <<jira, visited, issues>>
    /\ UNCHANGED j_rest

JNext ==
    \/ JEnter
    \/ JCollectIssue
    \/ JFindChildKeys
    \/ JNextChild

\* no call of collect_hierarchy_data
JIdle ==
    /\ jira = [subtasks |-> [k \in Keys |-> {}], epic_links |-> [k \in Keys |-> {}],
               failing_issues |-> {}, failing_searches |-> {}]
    /\ visited = {}
    /\ issues = <<>>
    /\ stack = <<>>
    /\ j_pc = "idle"

-----------------------------------------------------------------------------
(* Invocations of the skill-activation hook *)

\* an invocation: standard input from Stdins, environment from Es, and one rule
\* file, with a content from Contents, at a path from Ps
InitWith(Stdins, Es, Ps, Contents) ==
    /\ stdin \in Stdins
    /\ env \in Es
    /\ \E where \in Ps, content \in Contents :
           fs = [p \in Paths |-> IF p = where THEN content ELSE FileMissing]
    /\ pc = "read"
    /\ prompt = Str(<<>>)
    /\ rules_path = ""
    /\ rules = NotLoaded
    /\ idx = 0
    /\ matched_skills = <<>>
    /\ searched = {}
    /\ stdout = <<>>
    /\ stderr = <<>>
    /\ exit_code = -1
    /\ QIdle
    /\ VIdle
    /\ LIdle
    /\ JIdle

PluginEnv == [plugin_root |-> "<plugin>", project_dir |-> "<unset>"]

\* rules whose triggers vary: keyword lists with zero, one or two entries,
\* pattern lists with invalid, case-sensitive and case-insensitive entries
KeywordLists ==
    {<<>>, <<Str(<<"b">>)>>, <<Str(<<"b">>), Str(<<"A">>)>>}

PatternLists ==
    {<<>>,
     <<Pattern("invalid", <<"(">>)>>,
     <<Pattern("invalid", <<"(">>), Pattern("lit", <<"B">>)>>,
     <<Pattern("cs", <<"A">>), Pattern("cs", <<"b">>)>>}

TriggerBodies ==
    {Config(k, p, "high") : k \in KeywordLists, p \in PatternLists}
        \cup {NonMapping}

\* rules that always match a prompt containing "a" and differ in priority
PriorityBodies ==
    {Config(<<Str(<<"a">>)>>, <<>>, p) : p \in Priorities} \cup {NonMapping}

\* one sound rule and the defective ones
DefectBodies ==
    {Config(<<Str(<<"a">>)>>, <<>>, "high"),
     Config(<<>>, <<Pattern("invalid", <<"(">>)>>, "high"),
     Config(<<Str(<<"a">>)>>, <<>>, "urgent"),
     Config(<<Str(<<"a">>)>>, <<>>, PriorityUnhashable),
     Config(<<NonString>>, <<>>, "high"),
     Config(<<>>, <<NonString>>, "high"),
     NonMapping}

\* evaluation: every prompt against every trigger shape
InitMatch ==
    InitWith({StdinObject(Str(p), Absent) : p \in Prompts} \cup {StdinScalar},
             {PluginEnv}, {PluginPath},
             {RulesFile(rs) : rs \in RuleSetsOf(TriggerBodies)} \cup {FileMalformed})

SpecMatch == InitMatch /\ [][Next]_vars

\* formatting: every priority
InitFormat ==
    InitWith({StdinObject(Str(p), Absent) : p \in {<<"a">>, <<"b">>}}
                 \cup {StdinScalar},
             {PluginEnv}, {PluginPath},
             {RulesFile(rs) : rs \in RuleSetsOf(PriorityBodies)} \cup {FileMalformed})

SpecFormat == InitFormat /\ [][Next]_vars

\* the whole hook: every kind of standard input, environment and rule file
Init ==
    InitWith(StdinsOf({<<>>, <<"a">>, <<"b">>}), Envs, Paths,
             {RulesFile(rs) : rs \in RuleSetsOf(DefectBodies)}
                 \cup {FileMalformed, FileNotObject})

Spec == Init /\ [][Next]_vars

-----------------------------------------------------------------------------
(* Invocations of the question-optimizer hook *)

MaxWords == 3

MaxHistory == 2

MaxInvocations == 6

\* no invocation of the skill-activation hook
HookIdle ==
    /\ stdin = StdinBlank
    /\ env = PluginEnv
    /\ fs = [p \in Paths |-> FileMissing]
    /\ pc = "idle"
    /\ prompt = Str(<<>>)
    /\ rules_path = ""
    /\ rules = NotLoaded
    /\ idx = 0
    /\ matched_skills = <<>>
    /\ searched = {}
    /\ stdout = <<>>
    /\ stderr = <<>>
    /\ exit_code = -1

\* a session that will invoke the hook with the inputs of one of Runs, with
\* the history files of one of Homes
QInitWith(Runs, Homes, Writable) ==
    /\ invocations \in Runs
    /\ home \in Homes
    /\ home_writable \in Writable
    /\ inv = 0
    /\ q_pc = "idle"
    /\ session_id = "default"
    /\ user_prompt = Str(<<>>)
    /\ is_question = FALSE
    /\ conditions_met = 0
    /\ details = NoDetails
    /\ history = <<>>
    /\ match_count = 0
    /\ is_follow_up = FALSE
    /\ q_stderr = <<>>
    /\ q_exit_code = -1
    /\ HookIdle
    /\ VIdle
    /\ LIdle
    /\ JIdle

\* the texts made of up to n of the words, one space between two words
RECURSIVE Phrases(_, _)
Phrases(words, n) ==
    IF n = 0 THEN {<<>>}
    ELSE LET shorter == Phrases(words, n - 1)
         IN  shorter \cup words
                 \cup {p \o <<" ">> \o w : p \in shorter \ {<<>>}, w \in words}

NoHistory == [s \in Sessions |-> HistoryAbsent]

\* words that meet the conditions in every combination: a capitalized question
\* starter that is a verb, a starter with a comma, a listed subject, a verb,
\* a capitalized name, a plain noun
QuestionWords ==
    {<<"A", "r", "e">>, <<"h", "o", "w", ",">>, <<"i", "t">>, <<"r", "u", "n">>,
     <<"B", "o", "b">>, <<"p", "o", "d", "s">>}

\* what stands before and after the words of a prompt
Leads == {<<>>, <<" ">>}

Endings == {<<>>, <<"?">>, <<"?", " ">>, <<"?", ".">>}

QuestionPrompts ==
    {lead \o p \o e : lead \in Leads, p \in Phrases(QuestionWords, MaxWords),
                      e \in Endings} \ {<<>>}

\* classification: one invocation per prompt
InitQuestion ==
    QInitWith({<<QStdinObject(Absent, Str(p))>> : p \in QuestionPrompts},
              {NoHistory}, {TRUE})

SpecQuestion == InitQuestion /\ [][QNext]_vars

\* words of a question and of its history: a starter, a verb, a listed
\* subject, a noun, a stop word, a short starter that is a verb and a stop word
FollowUpWords ==
    {<<"h", "o", "w">>, <<"r", "u", "n">>, <<"a", "p", "i">>,
     <<"p", "o", "d", "s">>, <<"t", "h", "e">>, <<"i", "s">>}

FollowUpPrompts ==
    {p \o e : p \in Phrases(FollowUpWords, MaxWords), e \in {<<>>, <<"?">>}}
        \ {<<>>}

\* prompts of earlier invocations, as the history file holds them
StoredPrompts ==
    {<<"h", "o", "w", " ", "r", "u", "n">>,
     <<"A", "p", "i", ".", " ", "t", "h", "e", " ", "p", "o", "d", "s", "1">>}

StoredHistories == UNION {[1..n -> StoredPrompts] : n \in 0..MaxHistory}

\* follow-up detection: one invocation per prompt and stored history
InitFollowUp ==
    QInitWith({<<QStdinObject(Absent, Str(p))>> : p \in FollowUpPrompts},
              {[NoHistory EXCEPT !["default"] = HistoryList(h)] :
                   h \in StoredHistories} \cup {NoHistory},
              {TRUE})

SpecFollowUp == InitFollowUp /\ [][QNext]_vars

\* the inputs of a session: a question and a statement of the default
\* session, a statement of another session, an input without prompt
IsItQuestion == <<"i", "s", " ", "i", "t", "?">>

Statement == <<"p", "o", "d", "s">>

SessionInputs ==
    {QStdinObject(Absent, Str(IsItQuestion)),
     QStdinObject(Absent, Str(Statement)),
     QStdinObject(Str("s1"), Str(Statement)),
     QStdinObject(Absent, Absent)}

\* a session: up to MaxInvocations invocations, one after the other
InitHistory ==
    QInitWith(UNION {[1..n -> SessionInputs] : n \in 0..MaxInvocations},
              {NoHistory}, {TRUE, FALSE})

SpecHistory == InitHistory /\ [][QNext]_vars

MaxRuns == 2

\* every kind of standard input: unparsable text, JSON that is not an object,
\* an object without user_prompt, one whose user_prompt is not a string, a
\* question, a statement, a statement of another session
AnyInputs ==
    {QStdinUnparsable, QStdinScalar,
     QStdinObject(Absent, Absent),
     QStdinObject(Absent, NonString),
     QStdinObject(Absent, Str(IsItQuestion)),
     QStdinObject(Absent, Str(Statement)),
     QStdinObject(Str("s1"), Str(Statement))}

\* every state of the history file of the default session
AnyHomes ==
    {[NoHistory EXCEPT !["default"] = f] :
        f \in {HistoryAbsent, HistoryMalformed, HistoryNotList,
               HistoryList(<<Statement>>)}}

\* the whole hook: every input, every state of the history file
InitOptimizer ==
    QInitWith(UNION {[1..n -> AnyInputs] : n \in 0..MaxRuns}, AnyHomes,
              {TRUE, FALSE})

SpecOptimizer == InitOptimizer /\ [][QNext]_vars

-----------------------------------------------------------------------------
(* Runs of validate_tools.py *)

MaxTools == 2

MaxGems == 2

\* a run of the script on one of Files next to one of Helpers
VInitWith(Files, Helpers) ==
    /\ categories_file \in Files
    /\ helpers \in Helpers
    /\ v_pc = "start"
    /\ categories_data = NotDict
    /\ errors = <<>>
    /\ filesystem_tools = <<>>
    /\ v_stdout = <<>>
    /\ v_exit_code = -1
    /\ HookIdle
    /\ QIdle
    /\ LIdle
    /\ JIdle

\* sequences over S of length at most n
RECURSIVE SeqsUpTo(_, _)
SeqsUpTo(S, n) ==
    IF n = 0
    THEN {<<>>}
    ELSE LET shorter == SeqsUpTo(S, n - 1)
         IN  shorter \cup {Append(s, x) : s \in shorter, x \in S}

\* names of tools in the helpers directory
ToolNames == {<<"a">>, <<"b">>}

\* entries of a category: an existing name, a name nothing has, a blank
\* name, a number
ListedTools == {Str(<<"a">>), Str(<<"c">>), Str(<<" ">>), NonString}

ToolLists == {NotList} \cup {List(s) : s \in SeqsUpTo(ListedTools, MaxTools)}

\* mappings of no, one and two categories
Dicts ==
    {Dict(<<>>)}
        \cup {Dict(<<Category("Cat", t)>>) : t \in ToolLists}
        \cup {Dict(<<Category("Cat", t), Category("D", u)>>) :
                t \in ToolLists, u \in {NotList, List(<<Str(<<"c">>)>>),
                                        List(<<Str(<<"a">>)>>)}}

\* gem titles: "A!" is the gem a, "b 1" the gem b-1
GemEntries == {Str(<<"A", "!">>), Str(<<"b", " ", "1">>), NoTitle}

GemsFiles ==
    {GemsAbsent, GemsUnparsable, GemsNoList, GemsNotIterable}
        \cup {GemsList(s) : s \in SeqsUpTo(GemEntries, MaxGems)}

HelpersWith(skills, commands, agents, agent_dirs, gems) ==
    [exists |-> TRUE, skills |-> skills, commands |-> commands,
     agents |-> agents, agent_dirs |-> agent_dirs, gems |-> gems]

\* every state of the categories file, beside a few helpers directories
ValidateFiles ==
    {CategoriesMissing, CategoriesInvalid, CategoriesUnreadable,
     CategoriesValue(NotDict)}
        \cup {CategoriesValue(d) : d \in Dicts}

ValidateHelpers ==
    {NoHelpers,
     HelpersWith({<<"a">>}, {}, {}, {}, GemsAbsent),
     HelpersWith({<<"a">>}, {<<"a">>}, {}, {}, GemsAbsent),
     HelpersWith({<<"a">>}, {}, {}, {}, GemsNotIterable)}

InitValidate == VInitWith(ValidateFiles, ValidateHelpers)

SpecValidate == InitValidate /\ [][VNext]_vars

\* every mapping of categories, beside helpers directories of skills and gems
CatalogHelpers ==
    {NoHelpers}
        \cup {HelpersWith(s, {}, {}, {}, g) :
                s \in SUBSET ToolNames,
                g \in {GemsAbsent, GemsList(<<Str(<<"A", "!">>)>>)}}

InitCatalog ==
    VInitWith({CategoriesValue(d) : d \in Dicts}, CatalogHelpers)

SpecCatalog == InitCatalog /\ [][VNext]_vars

\* every helpers directory, beside two mappings of categories
ScanHelpers ==
    {HelpersWith(s, c, a, d, g) :
        s \in SUBSET ToolNames, c \in SUBSET ToolNames,
        a \in SUBSET ToolNames, d \in SUBSET {<<"a">>}, g \in GemsFiles}

InitScan ==
    VInitWith({CategoriesValue(Dict(<<>>)),
               CategoriesValue(Dict(<<Category("Cat", List(<<Str(<<"a">>)>>))>>))},
              ScanHelpers)

SpecScan == InitScan /\ [][VNext]_vars

-----------------------------------------------------------------------------
(* Calls of PluginsDocUpToDateRule.check *)

\* a call on a repository with any of the four files the rule asks for and
\* any content of the two files it checks
InitLint ==
    /\ repo \in [marketplace : BOOLEAN, categories_yaml : BOOLEAN,
                 website_script : BOOLEAN, settings_script : BOOLEAN]
    /\ data_json \in FileContents \cup {None}
    /\ claude_settings \in FileContents \cup {None}
    /\ l_pc = "start"
    /\ original_data_json = Unread
    /\ original_claude_settings = Unread
    /\ violations = <<>>
    /\ HookIdle
    /\ QIdle
    /\ VIdle
    /\ JIdle

SpecLint == InitLint /\ [][LNext]_vars

-----------------------------------------------------------------------------
(* Calls of collect_hierarchy_data *)

\* issues of the server that name an epic: none, B names A, B and C name A
EpicLinks ==
    {[k \in Keys |-> {}],
     [k \in Keys |-> IF k = "A" THEN {"B"} ELSE {}],
     [k \in Keys |-> IF k = "A" THEN {"B", "C"} ELSE {}]}

\* the call for the issue A on a server with any subtask relation over the
\* issues, cycles and shared children among them; the request for C may fail,
\* the search for the issues under B may fail
InitJira ==
    /\ jira \in [subtasks : [Keys -> SUBSET Keys], epic_links : EpicLinks,
                 failing_issues : {{}, {"C"}}, failing_searches : {{}, {"B"}}]
    /\ visited = {}
    /\ issues = <<>>
    /\ stack = <<Frame("A", 0, NoParent)>>
    /\ j_pc = "running"
    /\ HookIdle
    /\ QIdle
    /\ VIdle
    /\ LIdle

SpecJira == InitJira /\ [][JNext]_vars

\* the calls go on as long as one is active
FairSpecJira == SpecJira /\ WF_vars(JNext)

-----------------------------------------------------------------------------
(* Properties of check_prompt *)

\* some keyword of the rule, lowercased, is a substring of the lowercased text
KeywordMatches(config, text) ==
    \E k \in DOMAIN config.keywords :
        /\ config.keywords[k].t = "str"
        /\ Contains(str_lower(text), str_lower(config.keywords[k].v))

\* the intent patterns of the rule that have a match in the text
MatchingPatterns(config, text) ==
    {j \in DOMAIN config.intentPatterns :
        re_search(config.intentPatterns[j], text) = "match"}

HasMatch(name, type) ==
    \E k \in DOMAIN matched_skills :
        matched_skills[k].name = name /\ matched_skills[k].match_type = type

MatchesOf(name) == {k \in DOMAIN matched_skills : matched_skills[k].name = name}

\* the state in which check_prompt has just returned matched_skills
Returned == pc = "output"

\* C1: the list check_prompt builds and returns holds at most one entry per
\* rule name, also when several keywords and several intent patterns of the
\* rule match the text.
C1_AtMostOneMatchPerRule ==
    \A k \in DOMAIN rules.skills : Cardinality(MatchesOf(rules.skills[k].name)) <= 1

\* C1 witness: check_prompt returned, and a rule two of whose keywords and two
\* of whose patterns match the text has its one entry.
C1_Witness ==
    /\ Returned
    /\ \E k \in DOMAIN rules.skills :
          LET s == rules.skills[k]
          IN  /\ s.config.shape = "dict"
              /\ Cardinality({j \in DOMAIN s.config.keywords :
                     Contains(str_lower(prompt.v),
                              str_lower(s.config.keywords[j].v))}) >= 2
              /\ Cardinality(MatchingPatterns(s.config, prompt.v)) >= 2
              /\ Cardinality(MatchesOf(s.name)) = 1

\* C2: when check_prompt returns, every rule one of whose keywords, lowercased,
\* is a substring of the lowercased prompt is in the result with match_type
\* keyword and not with match_type intent, whatever its intent patterns are,
\* and none of its patterns was handed to re.search.
C2_KeywordMatchWins ==
    Returned =>
        \A k \in DOMAIN rules.skills :
            LET s == rules.skills[k]
            IN  (s.config.shape = "dict" /\ KeywordMatches(s.config, prompt.v)) =>
                    /\ HasMatch(s.name, "keyword")
                    /\ ~HasMatch(s.name, "intent")
                    /\ \A j \in DOMAIN s.config.intentPatterns :
                           <<s.name, j>> \notin searched

\* C2 witness: a rule matched by a keyword written in upper case whose pattern
\* list holds an invalid pattern is in the result as a keyword match.
C2_Witness ==
    /\ Returned
    /\ \E k \in DOMAIN rules.skills :
          LET s == rules.skills[k]
          IN  /\ s.config.shape = "dict"
              /\ \E j \in DOMAIN s.config.keywords :
                    /\ s.config.keywords[j].v # str_lower(s.config.keywords[j].v)
                    /\ Contains(str_lower(prompt.v),
                                str_lower(s.config.keywords[j].v))
              /\ \E j \in DOMAIN s.config.intentPatterns :
                    s.config.intentPatterns[j].t = "invalid"
              /\ HasMatch(s.name, "keyword")

\* C3: when check_prompt returns, every rule none of whose keywords matches
\* and one of whose intent patterns has a case-insensitive search match in
\* the prompt as given is in the result with match_type intent.
C3_IntentMatchReported ==
    Returned =>
        \A k \in DOMAIN rules.skills :
            LET s == rules.skills[k]
            IN  (/\ s.config.shape = "dict"
                 /\ ~KeywordMatches(s.config, prompt.v)
                 /\ MatchingPatterns(s.config, prompt.v) # {}) =>
                    HasMatch(s.name, "intent")

\* C3 witness: a rule with keywords, none of them matching, is in the result as
\* an intent match through a pattern that matches the prompt as given and
\* would not match its lowercased copy.
C3_Witness ==
    /\ Returned
    /\ \E k \in DOMAIN rules.skills :
          LET s == rules.skills[k]
          IN  /\ s.config.shape = "dict"
              /\ s.config.keywords # <<>>
              /\ ~KeywordMatches(s.config, prompt.v)
              /\ MatchingPatterns(s.config, prompt.v) # {}
              /\ MatchingPatterns(s.config, str_lower(prompt.v)) = {}
              /\ HasMatch(s.name, "intent")

\* a rule entry, keyword or pattern of the wrong JSON type
WrongShape(config) ==
    \/ config.shape # "dict"
    \/ \E j \in DOMAIN config.keywords : config.keywords[j].t # "str"
    \/ \E j \in DOMAIN config.intentPatterns : config.intentPatterns[j].t = "num"

\* the invalid patterns of a rule that the pattern loop reaches: no keyword
\* matched and no earlier pattern matched
ReachedInvalid(config, text) ==
    {j \in DOMAIN config.intentPatterns :
        /\ config.intentPatterns[j].t = "invalid"
        /\ ~KeywordMatches(config, text)
        /\ \A h \in 1..(j - 1) : h \notin MatchingPatterns(config, text)}

\* C9: an invalid intent pattern does not abort check_prompt.  The loop over
\* the rules is left by an exception only at a rule of the wrong shape; and
\* when check_prompt returns, every invalid pattern that was reached has its
\* warning on stderr, the pattern after it was tried, and the rule is an
\* intent match when a later pattern matches.
C9_InvalidPatternSkipped ==
    /\ (pc = "except" /\ idx \in DOMAIN rules.skills) =>
           WrongShape(rules.skills[idx].config)
    /\ Returned =>
           \A k \in DOMAIN rules.skills :
               LET s == rules.skills[k]
               IN  s.config.shape = "dict" =>
                       \A j \in ReachedInvalid(s.config, prompt.v) :
                           /\ <<s.name, j>> \in searched
                           /\ \E m \in DOMAIN stderr :
                                  stderr[m] = Message("invalid_regex",
                                                      s.config.intentPatterns[j].v)
                           /\ j < Len(s.config.intentPatterns) =>
                                  <<s.name, j + 1>> \in searched
                           /\ (\E h \in MatchingPatterns(s.config, prompt.v) : h > j)
                                  => HasMatch(s.name, "intent")

\* C9 witness: the first of two rules has an invalid pattern followed by a
\* matching one and is an intent match, the warning is on stderr, and the
\* second rule was evaluated and matched.
C9_Witness ==
    /\ Returned
    /\ Len(rules.skills) = 2
    /\ 1 \in ReachedInvalid(rules.skills[1].config, prompt.v)
    /\ 2 \in MatchingPatterns(rules.skills[1].config, prompt.v)
    /\ HasMatch(rules.skills[1].name, "intent")
    /\ \E m \in DOMAIN stderr : stderr[m].kind = "invalid_regex"
    /\ Cardinality(MatchesOf(rules.skills[2].name)) = 1

\* the rules of the rule set whose triggers match the prompt, in the order of
\* the rule set
TriggeredRules ==
    LET Hit(s) == /\ s.config.shape = "dict"
                  /\ \/ KeywordMatches(s.config, prompt.v)
                     \/ MatchingPatterns(s.config, prompt.v) # {}
    IN  SelectSeq(rules.skills, Hit)

\* C11: check_prompt visits every rule and returns the matches in the order
\* of the rule set: the list it returns names exactly the rules whose
\* triggers match the prompt, one entry each, in rule-set order and with the
\* rule's own configuration, whatever the priorities are.
C11_AllRulesInInsertionOrder ==
    Returned =>
        /\ idx = Len(rules.skills) + 1
        /\ Len(matched_skills) = Len(TriggeredRules)
        /\ \A k \in DOMAIN matched_skills :
               /\ matched_skills[k].name = TriggeredRules[k].name
               /\ matched_skills[k].config = TriggeredRules[k].config

\* C11 witness: the first rule has priority low and the second priority
\* critical, both match, and check_prompt returned them in that order.
C11_Witness ==
    /\ Returned
    /\ Len(rules.skills) = 2
    /\ Len(matched_skills) = 2
    /\ matched_skills[1].name = rules.skills[1].name
    /\ matched_skills[1].config.priority = "low"
    /\ matched_skills[2].name = rules.skills[2].name
    /\ matched_skills[2].config.priority = "critical"

-----------------------------------------------------------------------------
(* Properties of format_output and output_json *)

\* the text holds `line` as one of its lines
IsLine(text, line) ==
    Contains(<<"\n">> \o text \o <<"\n">>, <<"\n">> \o line \o <<"\n">>)

\* the triggers of the rule match the text
Triggered(config, text) ==
    KeywordMatches(config, text) \/ MatchingPatterns(config, text) # {}

\* every rule of the rule set that is triggered and has an invalid or missing
\* priority is an entry of matched_skills
InvalidPriorityMatched ==
    \A k \in DOMAIN rules.skills :
        LET s == rules.skills[k]
        IN  (/\ s.config.shape = "dict"
             /\ Triggered(s.config, prompt.v)
             /\ s.config.priority \notin known_priorities) =>
                \E m \in DOMAIN matched_skills :
                    /\ matched_skills[m].name = s.name
                    /\ matched_skills[m].config = s.config

\* C4 as stated: a matched rule with a missing or invalid priority is in the
\* list check_prompt returns, and its name occurs nowhere in the text
\* format_output returns for that list.
C4_NameNowhereInText ==
    Returned =>
        /\ InvalidPriorityMatched
        /\ LET f == format_output(matched_skills)
           IN  ~f.raised =>
                   \A m \in DOMAIN matched_skills :
                       matched_skills[m].config.priority \notin known_priorities
                           => ~Contains(f.text, matched_skills[m].name)

\* C4 amended: a matched rule with a missing or invalid priority is in the
\* list check_prompt returns, and the text format_output returns for that
\* list has no entry line for it.
C4_NotListed ==
    Returned =>
        /\ InvalidPriorityMatched
        /\ LET f == format_output(matched_skills)
           IN  ~f.raised =>
                   \A m \in DOMAIN matched_skills :
                       matched_skills[m].config.priority \notin known_priorities
                           => ~IsLine(f.text, EntryLine(matched_skills[m].name))

\* C4 witness: check_prompt returned a rule with an invalid priority and a
\* rule with a valid one; the report lists the second, and the name of the
\* first occurs in the text inside the name of the second.
C4_Witness ==
    /\ Returned
    /\ ~format_output(matched_skills).raised
    /\ \E m, n \in DOMAIN matched_skills :
          /\ matched_skills[m].config.priority \notin known_priorities
          /\ matched_skills[n].config.priority \in known_priorities
          /\ IsLine(format_output(matched_skills).text,
                    EntryLine(matched_skills[n].name))
          /\ Contains(format_output(matched_skills).text, matched_skills[m].name)

\* the lines of a text: text.split("\n")
RECURSIVE split_lines(_)
split_lines(text) ==
    IF \A i \in DOMAIN text : text[i] # "\n" THEN <<text>>
    ELSE LET nl == CHOOSE i \in DOMAIN text :
                       text[i] = "\n" /\ \A h \in 1..(i - 1) : text[h] # "\n"
         IN  <<SubSeq(text, 1, nl - 1)>>
                 \o split_lines(SubSeq(text, nl + 1, Len(text)))

\* the indexes at which `line` stands among the lines
LinesEqual(lines, line) == {i \in DOMAIN lines : lines[i] = line}

SectionOrder == <<"critical", "high", "medium", "low">>

IsSectionLabel(line) == \E p \in known_priorities : line = SectionLabel(p)

\* line i stands in the section of `priority`: the last section label above
\* it is the label of that priority
InSection(lines, i, priority) ==
    \E j \in 1..(i - 1) :
        /\ lines[j] = SectionLabel(priority)
        /\ \A h \in (j + 1)..(i - 1) : ~IsSectionLabel(lines[h])

\* C12: in every non-empty report format_output produces, the section labels
\* stand in the order critical, high, medium, low; the label of a priority is
\* there, once, exactly when a matched rule has that priority; every matched
\* rule with a valid priority has exactly one entry line, in the section of
\* its priority; and the entries of one section keep the order of the match
\* list.
C12_SectionsInFixedOrder ==
    Returned =>
        LET f == format_output(matched_skills)
            lines == split_lines(f.text)
            Prio(m) == matched_skills[m].config.priority
            Entry(m) == LinesEqual(lines, EntryLine(matched_skills[m].name))
        IN  (matched_skills # <<>> /\ ~f.raised) =>
                /\ \A p \in known_priorities :
                       Cardinality(LinesEqual(lines, SectionLabel(p))) =
                           IF \E m \in DOMAIN matched_skills : Prio(m) = p
                           THEN 1 ELSE 0
                /\ \A a, b \in DOMAIN SectionOrder :
                       a < b =>
                           \A i \in LinesEqual(lines, SectionLabel(SectionOrder[a])),
                              j \in LinesEqual(lines, SectionLabel(SectionOrder[b])) :
                               i < j
                /\ \A m \in DOMAIN matched_skills :
                       Prio(m) \in known_priorities =>
                           /\ Cardinality(Entry(m)) = 1
                           /\ \A i \in Entry(m) : InSection(lines, i, Prio(m))
                /\ \A m, n \in DOMAIN matched_skills :
                       (m < n /\ Prio(m) = Prio(n) /\ Prio(m) \in known_priorities) =>
                           \A i \in Entry(m), j \in Entry(n) : i < j

\* C12 witness: check_prompt returned a rule of priority low before a rule of
\* priority critical, and the report has the critical section, with the
\* second rule, above the optional section, with the first.
C12_Witness ==
    /\ Returned
    /\ Len(matched_skills) = 2
    /\ matched_skills[1].config.priority = "low"
    /\ matched_skills[2].config.priority = "critical"
    /\ LET lines == split_lines(format_output(matched_skills).text)
       IN  \E i, j \in DOMAIN lines :
               /\ i < j
               /\ lines[i] = EntryLine(matched_skills[2].name)
               /\ InSection(lines, i, "critical")
               /\ lines[j] = EntryLine(matched_skills[1].name)
               /\ InSection(lines, j, "low")

\* the loop of check_prompt has visited every rule
Completed == rules.kind = "rules" /\ idx > Len(rules.skills)

\* output_json has run on the list check_prompt returned
Formatted == Completed /\ pc \in {"exit", "except", "exited"}

\* a line of the report proper for the match list: banner, title, blank line,
\* section label, entry of a matched rule, action line
IsReportLine(line, matched) ==
    \/ line \in {Banner, Title, <<>>, ActionLine}
    \/ IsSectionLabel(line)
    \/ \E m \in DOMAIN matched : line = EntryLine(matched[m].name)

\* the invalid-priority warnings on stderr that name the rule
PriorityWarnings(name) ==
    {j \in DOMAIN stderr : stderr[j] = Message("invalid_priority", name)}

\* C13: diagnostics never reach the primary output.  What stdout holds is an
\* envelope whose text has report lines only, and so is the text
\* format_output returns; and once output_json has run, every matched rule
\* with an invalid priority has exactly one invalid-priority warning on stderr.
C13_DiagnosticsOnStderrOnly ==
    /\ \A k \in DOMAIN stdout :
           /\ stdout[k] = Payload(stdout[k].additionalContext)
           /\ \A i \in DOMAIN split_lines(stdout[k].additionalContext) :
                  IsReportLine(split_lines(stdout[k].additionalContext)[i],
                               matched_skills)
    /\ (Returned /\ matched_skills # <<>>) =>
           LET f == format_output(matched_skills)
           IN  ~f.raised =>
                   \A i \in DOMAIN split_lines(f.text) :
                       IsReportLine(split_lines(f.text)[i], matched_skills)
    /\ Formatted =>
           \A m \in DOMAIN matched_skills :
               matched_skills[m].config.priority \notin known_priorities =>
                   Cardinality(PriorityWarnings(matched_skills[m].name)) = 1

\* C14: stdout holds nothing, or exactly one line, the envelope of event
\* UserPromptSubmit whose additionalContext is the text format_output returns
\* for the matches; it holds a line only after output_json ran on a non-empty
\* match list, and then it holds it unless format_output raised; the report
\* is never on stdout as a line of its own.
C14_OneEnvelopeOrNothing ==
    /\ Len(stdout) <= 1
    /\ stdout # <<>> =>
           /\ Formatted
           /\ matched_skills # <<>>
           /\ stdout[1] = [hookEventName |-> "UserPromptSubmit",
                           additionalContext |-> format_output(matched_skills).text]
    /\ (/\ Formatted
        /\ matched_skills # <<>>
        /\ pc = "exit" \/ (pc = "exited" /\ exit_code = 0)) => Len(stdout) = 1

\* C14 witness: the hook has exited with status 0 after writing the one
\* envelope, whose text is the report for two matches.
C14_Witness ==
    /\ pc = "exited"
    /\ exit_code = 0
    /\ Len(matched_skills) = 2
    /\ Len(stdout) = 1
    /\ stdout[1].hookEventName = "UserPromptSubmit"
    /\ stdout[1].additionalContext = format_output(matched_skills).text
    /\ IsLine(stdout[1].additionalContext, EntryLine(matched_skills[2].name))

\* every matched rule has an invalid or missing priority
AllPrioritiesInvalid ==
    \A m \in DOMAIN matched_skills :
        matched_skills[m].config.priority \notin known_priorities

\* the report without any section: banner, title, banner, blank line, action
\* line, banner
BareReport == join_lines(<<Banner, Title, Banner, <<>>, ActionLine, Banner>>)

\* C28: format_output returns the empty string only for the empty match
\* list.  For a non-empty list all of whose rules have an invalid or missing
\* priority it returns the report without sections, and output_json writes
\* the envelope with that text to stdout.
C28_ReportWithoutSections ==
    /\ (Returned /\ matched_skills # <<>>) =>
           /\ ~format_output(matched_skills).raised
           /\ format_output(matched_skills).text # <<>>
           /\ AllPrioritiesInvalid =>
                  format_output(matched_skills).text = BareReport
    /\ (Formatted /\ matched_skills # <<>> /\ AllPrioritiesInvalid) =>
           stdout = <<Payload(BareReport)>>

\* C5: with an empty match list format_output returns the empty string,
\* output_json writes nothing to stdout and the process ends with status 0
\* (no exception, no second exit path).
C5_EmptyMatchNoOutput ==
    (Completed /\ matched_skills = <<>>) =>
        /\ format_output(matched_skills).text = <<>>
        /\ stdout = <<>>
        /\ pc \in {"loop", "output", "exited"}
        /\ pc = "exited" => exit_code = 0

\* C5 witness: the process has exited after an evaluation of a non-empty rule
\* set that matched nothing.
C5_Witness ==
    /\ Completed
    /\ rules.skills # <<>>
    /\ matched_skills = <<>>
    /\ pc = "exited"
    /\ exit_code = 0
    /\ stdout = <<>>

-----------------------------------------------------------------------------
(* Properties of the hook *)

\* C6: whenever the configuration loaded and the evaluation completed, the
\* hook exits with status 0, whatever matched and whatever was warned about.
C6_ExitZeroWhenEvaluated ==
    (Completed /\ pc = "exited") => exit_code = 0

\* the file at the path main resolves is missing or is not valid JSON
ConfigUnusable ==
    fs[resolve_rules_path(env)].kind \in {"missing", "malformed"}

\* C7: with a rule file that does not exist or is not valid JSON no rule set
\* is loaded and nothing is evaluated or written to stdout, and the process
\* ends with status 1 and a message on stderr.
C7_ConfigErrorFatal ==
    ConfigUnusable =>
        /\ rules = NotLoaded
        /\ idx = 0 /\ matched_skills = <<>> /\ searched = {}
        /\ stdout = <<>>
        /\ pc \in {"read", "resolve", "construct", "except", "exited"}
        /\ pc = "exited" => (exit_code = 1 /\ stderr # <<>>)

\* C7 witness: a well-formed prompt, a rule file that is not valid JSON, and
\* the process has exited with status 1 and the parse error on stderr.
C7_Witness ==
    /\ pc = "exited"
    /\ stdin.kind = "object"
    /\ ConfigUnusable
    /\ fs[rules_path].kind = "malformed"
    /\ exit_code = 1
    /\ stderr = <<Message("rules_parse_error", <<>>)>>
    /\ stdout = <<>>

\* C15: with CLAUDE_PLUGIN_ROOT set and non-empty the rules file is the one
\* under the plugin root, whatever CLAUDE_PROJECT_DIR is; a project-rooted
\* path is used only with CLAUDE_PLUGIN_ROOT absent or empty; and the rule set
\* that is loaded is the content of the file at the resolved path.
C15_PluginRootPrecedence ==
    /\ pc \in {"construct", "check", "loop", "output", "exit"} => rules_path # ""
    /\ rules_path # "" =>
           /\ env.plugin_root # "" => rules_path = PluginPath
           /\ rules_path \in {ProjectPath, DefaultPath} => env.plugin_root = ""
           /\ env.plugin_root = "" =>
                  rules_path = IF env.project_dir # "<unset>"
                               THEN ProjectPath ELSE DefaultPath
    /\ rules # NotLoaded => rules = fs[rules_path]

\* C15 witness: both variables are set, and the rule set was loaded from the
\* file under the plugin root.
C15_Witness ==
    /\ env.plugin_root # ""
    /\ env.project_dir # "<unset>"
    /\ rules_path = PluginPath
    /\ rules.kind = "rules"
    /\ rules.skills # <<>>
    /\ rules = fs[PluginPath]
    /\ fs[ProjectPath] = FileMissing

\* C17: the rule set is loaded once, by the constructor, and no later step
\* changes it: `rules` changes only in the step that loads it, from the
\* unloaded state to the content of the file, and every step taken with a
\* loaded rule set leaves it, and the file it came from, as they are.
C17_RulesLoadedOnceNeverModified ==
    [][/\ rules' # rules =>
              (pc = "construct" /\ rules = NotLoaded /\ rules' = fs[rules_path])
       /\ rules # NotLoaded => (rules' = rules /\ fs' = fs)
       /\ \A k \in DOMAIN matched_skills' :
              \E j \in DOMAIN rules'.skills :
                  /\ rules'.skills[j].name = matched_skills'[k].name
                  /\ rules'.skills[j].config = matched_skills'[k].config]_vars

\* C17 witness: the hook has exited after an evaluation that printed a
\* warning and wrote a report, and the rule set is the content of the file.
C17_Witness ==
    /\ pc = "exited"
    /\ exit_code = 0
    /\ rules.kind = "rules"
    /\ Len(rules.skills) = 2
    /\ rules = fs[rules_path]
    /\ \E j \in DOMAIN stderr : stderr[j].kind \in {"invalid_regex", "invalid_priority"}
    /\ stdout # <<>>

\* C8: the hook never fails because of the content of standard input: an
\* exception is raised only after the configuration was loaded and with a
\* text as prompt.
C8_InputNeverFatal ==
    pc = "except" => (rules.kind # "unloaded" /\ prompt.t = "str")

\* a rule with an invalid pattern, an invalid or missing priority, or a
\* trigger field of the wrong shape
Defective(config) ==
    \/ WrongShape(config)
    \/ \E j \in DOMAIN config.intentPatterns : config.intentPatterns[j].t = "invalid"
    \/ config.priority \notin known_priorities

\* C10: in a rule set with one defective rule, every other rule that matches
\* the prompt is in the matches when the hook ends.
C10_DefectIsolated ==
    (/\ pc = "exited"
     /\ rules.kind = "rules"
     /\ prompt.t = "str"
     /\ Cardinality({k \in DOMAIN rules.skills :
                        Defective(rules.skills[k].config)}) = 1) =>
        \A k \in DOMAIN rules.skills :
            LET s == rules.skills[k]
            IN  (~Defective(s.config) /\ Triggered(s.config, prompt.v)) =>
                    MatchesOf(s.name) # {}

-----------------------------------------------------------------------------
(* Properties of the question-optimizer hook *)

\* the invocations that have ended
Ended == IF q_pc \in {"idle", "exited"} THEN inv ELSE inv - 1

\* the non-empty prompts of the session, in arrival order, over the
\* invocations that have ended
Arrived(sid) ==
    LET ForSession(input) ==
            /\ input.kind = "object"
            /\ input.user_prompt.t = "str"
            /\ input.user_prompt.v # <<>>
            /\ sid = IF input.session_id = Absent THEN "default"
                     ELSE input.session_id.v
        inputs == SelectSeq(SubSeq(invocations, 1, Ended), ForSession)
    IN  [k \in DOMAIN inputs |-> inputs[k].user_prompt.v]

\* the prompts the history file of the session holds
Persisted(sid) == IF home[sid].kind = "list" THEN home[sid].items ELSE <<>>

\* C18: between two invocations the history file of every session holds at
\* most 5 prompts, and they are the latest of the non-empty prompts that came
\* in for the session, in arrival order, questions and other prompts alike
\* (as long as the history files can be written).
C18_HistoryIsLastFivePrompts ==
    (home_writable /\ q_pc \in {"idle", "exited"}) =>
        \A sid \in Sessions :
            /\ Len(Persisted(sid)) <= 5
            /\ Len(Persisted(sid)) = IF Len(Arrived(sid)) < 5
                                     THEN Len(Arrived(sid)) ELSE 5
            /\ \A k \in DOMAIN Persisted(sid) :
                   Persisted(sid)[k] =
                       Arrived(sid)[Len(Arrived(sid)) - Len(Persisted(sid)) + k]

\* C18 witness: six prompts came in for the default session, a question
\* first and a statement second; the first was evicted and the file holds
\* the other five in arrival order.
C18_Witness ==
    /\ q_pc = "exited"
    /\ home_writable
    /\ Len(Arrived("default")) = 6
    /\ Arrived("default")[1] = IsItQuestion
    /\ Arrived("default")[2] = Statement
    /\ Arrived("default")[6] = IsItQuestion
    /\ Persisted("default") = SubSeq(Arrived("default"), 2, 6)

\* C21: the question-optimizer hook always lets the prompt proceed: whatever
\* standard input and the history file hold, an invocation that has ended
\* has ended with status 0.
C21_AlwaysExitsZero ==
    q_pc = "exited" => q_exit_code = 0

\* check_question_conditions has just returned to main
Classified == q_pc \in {"plain", "question"}

\* the detail flags that are true
TrueFlags == {f \in DOMAIN details : details[f]}

\* the words of the text as the conditions see them: lowercased, separated by
\* white space, punctuation at their ends removed
ConditionWords(text) ==
    LET words == split(str_lower(text))
    IN  [k \in DOMAIN words |-> clean(words[k])]

StartsWithQuestionWord(text) ==
    ConditionWords(text) # <<>> /\ ConditionWords(text)[1] \in QUESTION_STARTERS

HasListedSubject(text) ==
    \E k \in DOMAIN ConditionWords(text) : ConditionWords(text)[k] \in subject_indicators

HasVerb(text) ==
    \E k \in DOMAIN ConditionWords(text) : ConditionWords(text)[k] \in COMMON_VERBS

\* the last character that is not white space is a question mark
EndsWithQuestionMark(text) ==
    \E i \in DOMAIN text :
        text[i] = "?" /\ \A j \in (i + 1)..Len(text) : text[j] \in Whitespace

IsBlank(text) == \A i \in DOMAIN text : text[i] \in Whitespace

\* C19: check_question_conditions returns is_question exactly when at least 3
\* of the 4 detail flags are true, and conditions_met is the number of true
\* flags; the flags say whether the prompt starts with a question word, has a
\* listed subject word, has a verb and ends with a question mark; and for an
\* empty or blank prompt it returns no question, 0 conditions and no flag.
C19_QuestionIffThreeConditions ==
    /\ check_question_conditions(<<>>) =
           [is_question |-> FALSE, conditions_met |-> 0, details |-> NoDetails]
    /\ Classified =>
           /\ conditions_met = Cardinality(TrueFlags)
           /\ is_question <=> Cardinality(TrueFlags) >= 3
           /\ is_question <=> q_pc = "question"
           /\ IF IsBlank(user_prompt.v)
              THEN ~is_question /\ conditions_met = 0 /\ details = NoDetails
              ELSE /\ DOMAIN details = {"starts_with_question_word", "has_subject",
                                        "has_verb", "ends_with_question_mark"}
                   /\ details.starts_with_question_word
                          <=> StartsWithQuestionWord(user_prompt.v)
                   /\ HasListedSubject(user_prompt.v) => details.has_subject
                   /\ details.has_verb <=> HasVerb(user_prompt.v)
                   /\ details.ends_with_question_mark
                          <=> EndsWithQuestionMark(user_prompt.v)

\* C19 witness: a prompt without question mark that meets exactly the three
\* other conditions was classified as a question.
C19_Witness ==
    /\ q_pc = "question"
    /\ is_question
    /\ conditions_met = 3
    /\ ~EndsWithQuestionMark(user_prompt.v)
    /\ TrueFlags = {"starts_with_question_word", "has_subject", "has_verb"}

\* the prompt as given holds a capitalized word longer than 2 characters
HasCapitalizedWord(text) ==
    \E k \in DOMAIN split(text) :
        /\ Len(clean(split(text)[k])) > 2
        /\ isupper(clean(split(text)[k])[1])

\* C27: condition 2 holds when the prompt holds a listed subject word or a
\* capitalized word longer than 2 characters: once check_question_conditions
\* has returned for such a prompt, the flag has_subject is true.
C27_CapitalizedWordIsSubject ==
    (Classified /\ ~IsBlank(user_prompt.v)) =>
        ((HasListedSubject(user_prompt.v) \/ HasCapitalizedWord(user_prompt.v))
            => details.has_subject)

\* the normalized words of a text: the lowercase alphabetic words, longer than
\* 2 characters and not in ARTICLES_AND_STOPWORDS, that stand in the
\* lowercased text between two characters that are not word characters
NormalizedWords(text) ==
    LET low == str_lower(text)
    IN  {w \in {SubSeq(low, i, j) : i, j \in DOMAIN low} :
            /\ Len(w) > 2
            /\ \A k \in DOMAIN w : w[k] \in LowerLetters
            /\ w \notin ARTICLES_AND_STOPWORDS
            /\ \E i \in 1..(Len(low) - Len(w) + 1) :
                   /\ SubSeq(low, i, i + Len(w) - 1) = w
                   /\ i > 1 => low[i - 1] \notin WordChars
                   /\ i + Len(w) <= Len(low) => low[i + Len(w)] \notin WordChars}

\* the history as loaded, before main appended the prompt
Loaded == SubSeq(history, 1, Len(history) - 1)

\* the normalized words the prompt shares with the loaded history
SharedWords ==
    NormalizedWords(user_prompt.v)
        \cap UNION {NormalizedWords(Loaded[k]) : k \in DOMAIN Loaded}

\* C20: a detected question is a follow-up exactly when at least 3 distinct
\* normalized words of the prompt are among the normalized words of the
\* stored history; with fewer, with an empty history or with no normalized
\* word in the prompt it is a new question; and the suggestion printed says
\* which of the two it is.
C20_FollowUpIffThreeSharedWords ==
    /\ q_pc = "suggest" =>
           /\ match_count = Cardinality(SharedWords)
           /\ is_follow_up <=> Cardinality(SharedWords) >= 3
           /\ (Loaded = <<>> \/ NormalizedWords(user_prompt.v) = {}) => ~is_follow_up
    /\ (q_pc = "exited" /\ is_question) =>
           /\ Len(q_stderr) = 1
           /\ q_stderr[1].kind = IF Cardinality(SharedWords) >= 3
                                 THEN "follow_up" ELSE "new"

\* C20 witness: a question with exactly three normalized words, all of them
\* among the words of a history of two prompts, was reported as a follow-up.
C20_Witness ==
    /\ q_pc = "exited"
    /\ is_question
    /\ Len(Loaded) = 2
    /\ Cardinality(NormalizedWords(user_prompt.v)) = 3
    /\ Cardinality(SharedWords) = 3
    /\ is_follow_up
    /\ q_stderr[1].kind = "follow_up"

-----------------------------------------------------------------------------
(* Properties of validate_tools.py *)

VEnded == v_pc = "exited"

\* validate_categories_yaml returned: no exception ended the run
ValidationReturned ==
    /\ categories_file.kind = "value"
    /\ \A k \in DOMAIN v_stdout : v_stdout[k] # VTraceback

\* C22: validate_tools.py exits with status 0 exactly when the categories file
\* loads and validate_categories_yaml returns no errors, and with status 1
\* otherwise: a missing file, invalid YAML, a top-level value that is not a
\* dictionary and any validation error all end with status 1.
C22_ExitZeroIffLoadedAndNoErrors ==
    VEnded =>
        /\ v_exit_code \in {0, 1}
        /\ v_exit_code = 0 <=> (ValidationReturned /\ errors = <<>>)
        /\ categories_file.kind \in {"missing", "invalid_yaml"} => v_exit_code = 1
        /\ (categories_file.kind = "value" /\ categories_file.value.t # "dict")
                => v_exit_code = 1

\* a run over a category with a tool the helpers directory has ends with 0
C22_Witness ==
    /\ VEnded
    /\ v_exit_code = 0
    /\ helpers.exists
    /\ yaml_tool_names(categories_data) # {}

\* validate_categories_yaml went through every check of a mapping beside an
\* existing helpers directory
CheckedAgainstHelpers ==
    /\ v_pc \in {"report", "exited"}
    /\ ValidationReturned
    /\ categories_data.t = "dict"
    /\ helpers.exists

\* the names the categories list: the strings of the lists of tools
ListedNames ==
    {n \in {<<"a">>, <<"c">>, <<" ">>} :
        \E c \in DOMAIN categories_data.items :
            /\ categories_data.items[c].tools.t = "list"
            /\ \E k \in DOMAIN categories_data.items[c].tools.items :
                    categories_data.items[c].tools.items[k] = Str(n)}

\* the names the helpers directory has a skill, command, agent or gem for
ExistingNames ==
    helpers.skills \cup helpers.commands \cup helpers.agents
        \cup helpers.agent_dirs
        \cup (IF Str(<<"A", "!">>) \in ToSet(helpers.gems.titles)
              THEN {<<"a">>} ELSE {})
        \cup (IF Str(<<"b", " ", "1">>) \in ToSet(helpers.gems.titles)
              THEN {<<"b", "-", "1">>} ELSE {})

Uncategorized == ExistingNames \ ListedNames

ReportedMissing ==
    {errors[k].subject : k \in {i \in DOMAIN errors : errors[i].kind = "does_not_exist"}}

\* nothing is wrong but, possibly, tools no category lists
OnlyUncategorized ==
    /\ ListedNames \subseteq ExistingNames
    /\ \A n \in ExistingNames : Len(tool_locations(helpers, n)) = 1
    /\ helpers.agent_dirs = {}
    /\ \A c \in DOMAIN categories_data.items :
            /\ categories_data.items[c].tools.t = "list"
            /\ \A k \in DOMAIN categories_data.items[c].tools.items :
                    /\ categories_data.items[c].tools.items[k] = Str(<<"a">>)
                    /\ \A j \in 1..(k - 1) :
                            categories_data.items[c].tools.items[j] # Str(<<"a">>)

InfoOnlyRun ==
    /\ CheckedAgainstHelpers
    /\ VEnded
    /\ OnlyUncategorized
    /\ Uncategorized # {}
    /\ ListedNames # {}

\* get_filesystem_tools_with_duplicates_check returned to
\* validate_categories_yaml
Scanned ==
    /\ v_pc \in {"exist", "consistency", "report", "exited"}
    /\ ValidationReturned
    /\ categories_data.t = "dict"
    /\ helpers.exists

\* the gem titles of gems.yaml that give the name n
TitlesFor(n) ==
    {k \in DOMAIN helpers.gems.titles :
        \/ n = <<"a">> /\ helpers.gems.titles[k] = Str(<<"A", "!">>)
        \/ n = <<"b", "-", "1">> /\ helpers.gems.titles[k] = Str(<<"b", " ", "1">>)}

\* the order the scan goes through the tool types
ScanOrder == <<"skill", "command", "agent", "gem">>

\* the tool types, in scan order, the name n is found under
TypesOf(n) ==
    SelectSeq(ScanOrder,
        LAMBDA type :
            \/ type = "skill" /\ n \in helpers.skills
            \/ type = "command" /\ n \in helpers.commands
            \/ type = "agent" /\ n \in helpers.agents \cup helpers.agent_dirs
            \/ type = "gem" /\ TitlesFor(n) # {})

\* the number of places the name n is found at
PlacesOf(n) ==
    Cardinality({type \in {"skill"} : n \in helpers.skills})
        + Cardinality({type \in {"command"} : n \in helpers.commands})
        + Cardinality({type \in {"agent"} : n \in helpers.agents})
        + Cardinality({type \in {"agent"} : n \in helpers.agent_dirs})
        + Cardinality(TitlesFor(n))

DuplicateErrorsFor(n) ==
    {k \in DOMAIN errors :
        errors[k].kind = "duplicate_across_types" /\ errors[k].subject = n}

\* C24: a tool name found under more than one of the types skill, command,
\* agent, gem yields exactly one "Duplicate tool name" error, which lists
\* every location of the name, and the returned mapping gives the name the
\* type found first in the scan order skill, command, agent, gem.
C24_OneDuplicateErrorFirstTypeWins ==
    Scanned =>
        \A n \in ToolNames \cup {<<"b", "-", "1">>} :
            Len(TypesOf(n)) > 1 =>
                /\ Cardinality(DuplicateErrorsFor(n)) = 1
                /\ \A k \in DuplicateErrorsFor(n) :
                        /\ Len(errors[k].where) = PlacesOf(n)
                        /\ \A type \in ToSet(TypesOf(n)) :
                                \E j \in DOMAIN errors[k].where :
                                    errors[k].where[j].type
                                        \in {type, "agent (incorrect format)"}
                /\ n \in DOMAIN filesystem_tools
                /\ filesystem_tools[n] = TypesOf(n)[1]

\* a scan that found the command a, the agent a and the gem titled "A!"
C24_Witness ==
    /\ Scanned
    /\ TypesOf(<<"a">>) = <<"command", "agent", "gem">>
    /\ filesystem_tools[<<"a">>] = "command"
    /\ DuplicateErrorsFor(<<"a">>) # {}

-----------------------------------------------------------------------------
(* Properties of PluginsDocUpToDateRule.check *)

\* check returned after it had read the files
ReturnedAfterReading ==
    /\ l_pc = "returned"
    /\ original_data_json # Unread

\* C25: PluginsDocUpToDateRule.check leaves the checked files as it found
\* them: whether both generator scripts succeed, one exits non-zero or one
\* times out, a docs/data.json and an images/claude/claude-settings.json that
\* existed before the check hold their original content when it returns.
C25_CheckedFilesLeftAsFound ==
    ReturnedAfterReading =>
        /\ original_data_json # None => data_json = original_data_json
        /\ original_claude_settings # None =>
                claude_settings = original_claude_settings

\* the same, for the calls in which both scripts ran to the end
RestoredWhenBothScriptsSucceed ==
    (ReturnedAfterReading
        /\ \A k \in DOMAIN violations :
                violations[k] \in {"data_json_out_of_sync",
                                   "claude_settings_out_of_sync"}) =>
        /\ original_data_json # None => data_json = original_data_json
        /\ original_claude_settings # None =>
                claude_settings = original_claude_settings

-----------------------------------------------------------------------------
(* Properties of collect_hierarchy_data *)

EntriesFor(key) == {k \in DOMAIN issues : issues[k].key = key}

\* the outermost call returns
HierarchyTerminates == <>(j_pc = "returned")

\* no key is entered twice, in the result or on the way to it
EachKeyAtMostOneDataEntry ==
    \A key \in Keys :
        Cardinality({k \in EntriesFor(key) : ~issues[k].error}) <= 1

\* C26: collect_hierarchy_data terminates for every finite issue graph, with
\* cycles and shared children, and every issue key appears at most once in
\* the returned list, as a data entry or as an error entry.
C26_EachKeyAtMostOnce ==
    j_pc = "returned" =>
        \A key \in Keys : Cardinality(EntriesFor(key)) <= 1

====
